---- MODULE Spec2Model ----
(***************************************************************************)
(* octa-force-rs: device selection, swapchain management and the frame     *)
(* loop (acquire -> record -> submit -> present) as state machines.        *)
(*                                                                         *)
(*   Spec        the run loop of lib.rs driving Engine::draw of engine.rs  *)
(*               against a GPU queue and a presentation engine             *)
(*   SpecScenario                                                          *)
(*               the same loop with two slots and three images, followed   *)
(*               over ten draw calls                                       *)
(*   SpecLive    the same loop on a GPU that finishes every submission     *)
(*               (weak fairness of the queue and of the fence wait)        *)
(*   SpecSwap    Swapchain::new, resize and drop against a surface whose   *)
(*               capabilities change between calls                         *)
(*   SpecRequired, SpecWanted                                              *)
(*               load_possible_physical_devices_capabilities and           *)
(*               select_suitable_physical_device over devices that differ  *)
(*               in what they support of the required / wanted lists       *)
(*   SpecReload  load_possible_physical_devices_capabilities called again  *)
(*               with other lists                                          *)
(*   SpecHard    the same over devices that each lack one of the hard      *)
(*               requirements                                              *)
(*   SpecOrder   the same over suitable devices that differ in class and   *)
(*               in max_memory_allocation_count                            *)
(*   SpecPresent the same over devices that report different present modes *)
(*               in different orders                                       *)
(*   SpecHeap    DescriptorHeap::create_image_handle and the drop of       *)
(*               DescriptorHandle against the handle allocator             *)
(*   SpecHot     LibReloader: the watcher thread and update interleaved,   *)
(*               with weak fairness of both                                *)
(*   SpecContext Context::new building the lists from an EngineConfig and  *)
(*               loading the capabilities with them                        *)
(***************************************************************************)
EXTENDS Integers, Sequences, FiniteSets, TLC

(***************************************************************************)
(* Bounds of the model                                                     *)
(***************************************************************************)
MaxInFlight == 2
MaxImages == 3
MaxFrames == 4
ScenarioFrames == 10
LiveFrames == 3
MaxTimestamp == 1
MaxExtent == 2
MaxDevices == 2
MaxSelects == 2
MaxHandles == 4
MaxContent == 3
HashRange == 3
MaxModifications == 3
MaxWords == 2
WordBits == 2

\* std::u32::MAX, the "no fixed extent" marker of the surface capabilities; extents
\* are modelled as 4-bit unsigned numbers, so the largest value is 15
U32Max == 15

(***************************************************************************)
(* State                                                                   *)
(***************************************************************************)
VARIABLES
    pc,                         \* position of the main thread
    is_swapchain_dirty,         \* run(): let mut is_swapchain_dirty
    window_zero,                \* window.inner_size() has a zero component
    num_frames_in_flight,       \* Engine.num_frames_in_flight
    current_frame,              \* InFlightFrames.current_frame
    fence,                      \* per_frames[i].fence is signaled
    image_available_semaphore,  \* per_frames[i].image_available_semaphore has a signal pending
    render_finished_semaphore,  \* per_frames[i].render_finished_semaphore is signaled
    timing_query_pool,          \* per_frames[i].timing_query_pool: "unwritten" | "written"
    total_frame_count,          \* FrameStats.total_frame_count
    frame_limit,                \* number of draw calls the run is followed for
    gpu_time,                   \* FrameStats.gpu_time
    frame_index,                \* draw(): let frame_index
    command_buffers,            \* Engine.command_buffers.len()
    swapchain,                  \* Engine.swapchain
    live_swapchains,            \* VkSwapchainKHR handles created and not destroyed
    double_destroy,             \* a handle was destroyed that was not live
    swap_call,                  \* the last Swapchain call: arguments, capabilities read, outcome
    gpu_queue,                  \* graphics submissions not yet completed, oldest first
    image_state,                \* presentation engine: image i is "free" | "acquired" | "queued"
    present_wait,               \* semaphore index the last present of image i waits
                                \* or waited on; -1: not presented since the chain was built
    present_queue,              \* images handed to queue_present and not yet presented, oldest first
    frame,                      \* what the current draw call did (its observable trace)
    engine_config,              \* the EngineConfig handed to Context::new
    debug_assertions,           \* the build has debug_assertions (cfg of Context::new)
    physical_devices,           \* what enumerate_physical_devices and the per-device queries report
    config,                     \* the lists and flags Context::new passes to load and select
    physical_devices_capabilities,  \* Instance.physical_devices_capabilities
    physical_device,            \* outcome of the last select_suitable_physical_device
    devices_capabilities,       \* its local devices_capabilities after the sort, as logged:
                                \* handle and minus_points of every suitable device
    loaded,                     \* load_possible_physical_devices_capabilities has returned
    select_runs,                \* number of select_suitable_physical_device calls made
    next_free_word_id,          \* DescriptorHeapHandleAllocator.next_free_word_id
    used_map,                   \* DescriptorHeapHandleAllocator.used_map: word i as the
                                \* set of its bits that are 1
    live_handles,               \* how many DescriptorHandle objects hold each value
    heap_panicked,              \* a call on the descriptor heap has panicked
    watched_lib,                \* content of the watched library file
    loaded_lib,                 \* content of the library LibReloader has loaded
    lib_file_hash,              \* LibReloader.lib_file_hash
    changed,                    \* LibReloader.changed
    event_pending,              \* the debouncer owes the watcher closure a call
    copied_lib,                 \* content of loaded_lib_file after fs::copy in reload
    hot_pc,                     \* position of the main thread in LibReloader::update
    modifications               \* number of writes to the watched file so far

frameVars == <<pc, is_swapchain_dirty, window_zero, num_frames_in_flight, current_frame,
               fence, image_available_semaphore, render_finished_semaphore,
               timing_query_pool, total_frame_count, frame_limit, gpu_time, frame_index,
               command_buffers, gpu_queue, image_state, present_wait, present_queue, frame>>
swapVars == <<swapchain, live_swapchains, double_destroy, swap_call>>
selVars == <<engine_config, debug_assertions, physical_devices, config, physical_devices_capabilities, physical_device,
             devices_capabilities, loaded, select_runs>>
heapVars == <<next_free_word_id, used_map, live_handles, heap_panicked>>
hotVars == <<watched_lib, loaded_lib, lib_file_hash, changed, event_pending, copied_lib,
             hot_pc, modifications>>
vars == <<frameVars, swapVars, selVars, heapVars, hotVars>>

(***************************************************************************)
(* Helpers                                                                 *)
(***************************************************************************)
Min(a, b) == IF a <= b THEN a ELSE b
Max(a, b) == IF a >= b THEN a ELSE b

Range(s) == {s[i] : i \in DOMAIN s}

\* u64::saturating_sub
SaturatingSub(a, b) == IF a >= b THEN a - b ELSE 0

Iota(n) == [i \in 1..n |-> i]

(***************************************************************************)
(* DescriptorHeapHandleAllocator (vulkan/descriptor_heap.rs)               *)
(***************************************************************************)
\* a word of used_map with every bit set (!0)
FullWord == 0..(WordBits - 1)

\* the values alloc can return: word * bits + bit, and !0 when every word is full
HandleValues == 0..(MaxWords * WordBits - 1) \cup {U32Max}

\* DescriptorHeapHandleAllocator::new
NewAllocator == [next_free_word_id |-> 0, used_map |-> [i \in 0..(MaxWords - 1) |-> {}]]

\* the words alloc visits, in order: (i + next_free_word_id) % len for i in 0..len
ScanOrder(next, len) == [i \in 1..len |-> (i - 1 + next) % len]

\* the bit alloc sets in a word that is not full: its count_ones()
AllocBit(word) == Cardinality(word)

\* DescriptorHeapHandleAllocator::alloc: the value returned and the allocator after
Alloc(next, map) ==
    LET len == MaxWords
        order == ScanOrder(next, len)
        NotFull(wi) == map[wi] # FullWord
        free == SelectSeq(order, NotFull)
    IN  IF free = <<>>
        THEN [value |-> U32Max, next_free_word_id |-> next, used_map |-> map]
        ELSE LET wi == free[1]
                 j == AllocBit(map[wi])
             IN  [value |-> wi * WordBits + j,
                  next_free_word_id |-> wi,
                  used_map |-> [map EXCEPT ![wi] = @ \cup {j}]]

\* DescriptorHeapHandleAllocator::free; indexing used_map past its end panics
Free(map, addr) ==
    IF addr \div WordBits >= MaxWords
    THEN [panic |-> TRUE, used_map |-> map]
    ELSE [panic |-> FALSE,
          used_map |-> [map EXCEPT ![addr \div WordBits] = @ \ {addr % WordBits}]]

\* no descriptor heap is under study
HeapUnused ==
    /\ next_free_word_id = 0
    /\ used_map = NewAllocator.used_map
    /\ live_handles = [v \in HandleValues |-> 0]
    /\ heap_panicked = FALSE

(***************************************************************************)
(* LibReloader (hot_reloading/lib_reloader.rs)                             *)
(***************************************************************************)
\* the contents the watched file may have
Contents == 0..MaxContent

\* hash_file: a 32-bit checksum of the content; different contents may collide
HashFile(content) == content % HashRange

\* the closure handed to new_debouncer stores true into changed unless the hash of
\* the file is lib_file_hash or changed is already set (the file exists)
WatcherSetsChanged(file, hash, pending) == HashFile(file) # hash /\ ~pending

\* LibReloader::new on a library file with the given content: the file is copied
\* and loaded, its hash stored, the watcher started
LibReloaderNew(content) ==
    /\ watched_lib = content
    /\ loaded_lib = content
    /\ lib_file_hash = HashFile(content)
    /\ changed = FALSE
    /\ event_pending = FALSE
    /\ copied_lib = content
    /\ hot_pc = "idle"
    /\ modifications = 0

\* no hot reloading is under study
HotReloadUnused == LibReloaderNew(0)

(***************************************************************************)
(* Swapchain (vulkan/swapchain.rs)                                         *)
(***************************************************************************)
NullHandle == 0

\* vkCreateSwapchainKHR returns a handle value that is not in use
FreshHandle(live) == CHOOSE h \in 1..(Cardinality(live) + 1) : h \notin live

\* the extent block without the clamp against the surface limits
SwapchainExtent_Unclamped(capabilities, width, height) ==
    IF capabilities.current_extent[1] # U32Max
    THEN capabilities.current_extent
    ELSE <<width, height>>

\* "Swapchain extent" block of new and resize
SwapchainExtent(capabilities, width, height) ==
    IF capabilities.current_extent[1] # U32Max
    THEN capabilities.current_extent
    ELSE LET min == capabilities.min_image_extent
             max == capabilities.max_image_extent
         IN  <<Max(Min(width, max[1]), min[1]), Max(Min(height, max[2]), min[2])>>

\* "Swapchain image count" of Swapchain::new
NewImageCount(capabilities) == capabilities.min_image_count + 1

\* "Swapchain image count" of Swapchain::resize
ResizeImageCount(capabilities) == capabilities.min_image_count

\* the sharing mode the builder is given: CONCURRENT when the graphics and the
\* present queue family of the selected device differ
ImageSharingMode(device) ==
    IF device.graphics_queue_family.index # device.present_queue_family.index
    THEN "CONCURRENT"
    ELSE "EXCLUSIVE"

\* create_info of Swapchain::new, as far as it depends on the surface, the request
\* and the selected device
NewCreateInfo(capabilities, width, height, device) ==
    [min_image_count |-> NewImageCount(capabilities),
     image_extent |-> SwapchainExtent(capabilities, width, height),
     image_usage |-> {"COLOR_ATTACHMENT", "TRANSFER_DST"},
     image_sharing_mode |-> ImageSharingMode(device)]

\* create_info of Swapchain::resize
ResizeCreateInfo(capabilities, width, height, device) ==
    [min_image_count |-> ResizeImageCount(capabilities),
     image_extent |-> SwapchainExtent(capabilities, width, height),
     image_usage |-> {"COLOR_ATTACHMENT", "TRANSFER_DST"},
     image_sharing_mode |-> ImageSharingMode(device)]

\* no create_info was built
NoCreateInfo ==
    [min_image_count |-> 0, image_extent |-> <<0, 0>>, image_usage |-> {},
     image_sharing_mode |-> "none"]

\* the depth list is built by mapping over 0..images_and_views.len()
DepthImagesFor(images_and_views) == Iota(Len(images_and_views))

\* Swapchain::new; images is what vkGetSwapchainImagesKHR returned
SwapchainNew(capabilities, width, height, handle, images) ==
    [swapchain_khr |-> handle,
     size |-> SwapchainExtent(capabilities, width, height),
     images_and_views |-> images,
     depht_images_and_views |-> DepthImagesFor(images)]

\* destroy that clears the color list only
SwapchainDestroy_ColorOnly(sc) ==
    [sc EXCEPT !.images_and_views = <<>>]

\* Swapchain::destroy: both lists cleared, the handle destroyed (the field keeps its value)
SwapchainDestroy(sc) ==
    [sc EXCEPT !.images_and_views = <<>>, !.depht_images_and_views = <<>>]

\* Swapchain::resize. outcome: "ok", or the call whose error `?` returns:
\* "caps" (get_physical_device_surface_capabilities), "create" (create_swapchain),
\* "images" (get_swapchain_images)
SwapchainResize(sc, capabilities, width, height, handle, images, outcome) ==
    IF outcome = "ok"
    THEN [SwapchainDestroy(sc) EXCEPT
            !.swapchain_khr = handle,
            !.size = SwapchainExtent(capabilities, width, height),
            !.images_and_views = images,
            !.depht_images_and_views = DepthImagesFor(images)]
    ELSE SwapchainDestroy(sc)

\* handles live after resize: the old one is destroyed, a new one exists once
\* create_swapchain succeeded
LiveAfterResize(sc, live, handle, outcome) ==
    (live \ {sc.swapchain_khr}) \cup (IF outcome \in {"ok", "images"} THEN {handle} ELSE {})

\* surface capabilities the frame loop runs against: a fixed current extent
FrameCapabilities ==
    {[current_extent |-> <<1, 1>>, min_image_extent |-> <<1, 1>>,
      max_image_extent |-> <<1, 1>>, min_image_count |-> c] : c \in 1..(MaxImages - 1)}

\* surfaces Swapchain is exercised against: the limits of a surface, and the
\* current extents it may report (U32Max: the surface takes the size of the swapchain)
SurfaceLimits ==
    {[current_extent |-> <<U32Max, U32Max>>, min_image_extent |-> mn,
      max_image_extent |-> <<MaxExtent, MaxExtent>>, min_image_count |-> c] :
        mn \in {<<1, 1>>, <<1, 2>>, <<2, 1>>, <<2, 2>>}, c \in 1..(MaxImages - 1)}

CurrentExtents == {<<U32Max, U32Max>>, <<1, 2>>}

\* window sizes a caller may pass: zero, the least size, the surface maximum and beyond
RequestedExtents == {0, 1, MaxExtent, MaxExtent + 1}

NoCall == [op |-> "none", width |-> 0, height |-> 0, outcome |-> "none",
           create_info |-> NoCreateInfo,
           capabilities |-> [current_extent |-> <<1, 1>>, min_image_extent |-> <<1, 1>>,
                             max_image_extent |-> <<1, 1>>, min_image_count |-> 1]]

(***************************************************************************)
(* InFlightFrames (engine.rs)                                              *)
(***************************************************************************)
Slots == 0..(num_frames_in_flight - 1)

\* next() that leaves the index where it is
InFlightNext_NoAdvance(cur, len) == cur % len

\* next() without the modulo
InFlightNext_NoWrap(cur, len) == cur + 1

\* InFlightFrames::next
InFlightNext(cur, len) == (cur + 1) % len

\* one image-available semaphore for all slots
ImageAvailableIndex_Single(cur) == 0

\* index of the semaphore InFlightFrames::image_available_semaphore returns
ImageAvailableIndex(cur) == cur

\* one command buffer recorded for every image
CommandBufferIndex_Single(cur, image) == 0

\* index of the command buffer draw records and submits: command_buffers[frame_index]
CommandBufferIndex(cur, image) == image

\* index of the semaphore InFlightFrames::render_finished_semaphore returns
RenderFinishedIndex(cur, image) == cur

\* end - start without saturation
GpuFrameTime_Wrapping(result) == result[2] - result[1]

\* InFlightFrames::gpu_frame_time_ms on the query results <<start, end>>
GpuFrameTime(result) == SaturatingSub(result[2], result[1])

TimestampResults == (0..MaxTimestamp) \X (0..MaxTimestamp)

(***************************************************************************)
(* GPU queue and presentation engine                                       *)
(***************************************************************************)
GpuIdle == gpu_queue = <<>>

\* a recreate that does not wait for the device
DeviceWaitIdleReturns_NoWait(queue) == TRUE

\* Context::device_wait_idle returns: nothing submitted is still executing
DeviceWaitIdleReturns(queue) == queue = <<>>

Executing(image) == \E k \in DOMAIN gpu_queue : gpu_queue[k].image = image

Pending(slot) == \E k \in DOMAIN gpu_queue : gpu_queue[k].slot = slot

BufferExecuting(buffer) == \E k \in DOMAIN gpu_queue : gpu_queue[k].buffer = buffer

\* slot, count: in-flight index and total_frame_count at entry; acquire, present: what
\* the platform returned; result: what draw returned; pool_read: gpu_frame_time_ms ran;
\* signal, wait: index of the semaphore the submission signals / the present waits on;
\* recreated: recreate_swapchain ran in the same loop iteration; after_needs_resize:
\* the previous draw call met ERROR_OUT_OF_DATE_KHR; semaphore: index of the
\* semaphore handed to acquire_next_image
NoFrame == [slot |-> -1, count |-> -1, acquire |-> "none", present |-> "none",
            result |-> "none", pool_read |-> FALSE, signal |-> -1, wait |-> -1,
            recreated |-> FALSE, after_needs_resize |-> FALSE, semaphore |-> -1]

NeedsResize(fr) == fr.acquire = "out_of_date" \/ fr.present = "out_of_date"

\* a submission made without its fence
FenceAfterSignal_NoFence(fences, slot) == fences

\* the fence handed to Queue::submit once the submission has finished
FenceAfterSignal(fences, slot) == [fences EXCEPT ![slot] = TRUE]

\* the graphics queue finishes its oldest submission
GpuComplete ==
    /\ gpu_queue # <<>>
    /\ LET s == Head(gpu_queue)
       IN  /\ fence' = FenceAfterSignal(fence, s.slot)
           /\ image_available_semaphore' = [image_available_semaphore EXCEPT ![s.wait] = FALSE]
           /\ render_finished_semaphore' = [render_finished_semaphore EXCEPT ![s.signal] = TRUE]
           /\ timing_query_pool' = [timing_query_pool EXCEPT ![s.slot] = "written"]
    /\ gpu_queue' = Tail(gpu_queue)
    /\ UNCHANGED <<pc, is_swapchain_dirty, window_zero, num_frames_in_flight,
                   frame_limit, current_frame,
                   total_frame_count, gpu_time, frame_index, command_buffers,
                   image_state, present_wait, present_queue, frame, swapVars, selVars, heapVars, hotVars>>

\* the presentation engine takes the oldest present request once the semaphore it
\* waits on is signaled, consumes the signal, and hands the image back
PresentRelease ==
    /\ present_queue # <<>>
    /\ LET i == Head(present_queue)
       IN  /\ render_finished_semaphore[present_wait[i]]
           /\ image_state' = [image_state EXCEPT ![i] = "free"]
           /\ render_finished_semaphore' =
                 [render_finished_semaphore EXCEPT ![present_wait[i]] = FALSE]
    /\ present_queue' = Tail(present_queue)
    /\ UNCHANGED <<pc, is_swapchain_dirty, window_zero, num_frames_in_flight,
                   frame_limit,
                   current_frame, fence, image_available_semaphore, timing_query_pool,
                   total_frame_count, gpu_time, frame_index, command_buffers,
                   gpu_queue, present_wait, frame, swapVars, selVars, heapVars, hotVars>>

(***************************************************************************)
(* Device capabilities (vulkan/physical_device.rs)                         *)
(***************************************************************************)
\* an EngineConfig that uses no optional capability
NoEngineConfig ==
    [ray_tracing |-> "NotUsed", compute_rendering |-> "NotUsed",
     shader_debug_printing |-> "NotUsed", shader_debug_clock |-> "NotUsed",
     gl_ext_scalar_block_layout |-> "NotUsed"]

NoConfig == [required_extensions |-> {}, wanted_extensions |-> {},
             required_device_features |-> {}, wanted_device_features |-> {},
             render_storage_image_format_is_needed |-> FALSE,
             surface_formats_with_storage_bit_is_wanted |-> FALSE]

NoDevice == [status |-> "none"]

\* the struct of PhysicalDeviceFeatures a flag lives in ("features" is the core
\* vk::PhysicalDeviceFeatures, the others are chained structs)
FeatureGroup(name) ==
    CASE name = "geometryShader" -> "features"
      [] name = "bufferDeviceAddress" -> "features12"
      [] name = "scalarBlockLayout" -> "features12"
      [] name = "synchronization2" -> "features13"
      [] name = "runtimeDescriptorArray" -> "features12"
      [] name = "timelineSemaphore" -> "features12"
      [] name = "dynamicRendering" -> "features13"
      [] name = "shaderDeviceClock" -> "clock_feature"
      [] name = "rayTracingPipeline" -> "ray_tracing_feature"
      [] name = "accelerationStructure" -> "acceleration_struct_feature"

KnownFeatures == {"geometryShader", "bufferDeviceAddress", "scalarBlockLayout",
                  "synchronization2", "runtimeDescriptorArray", "timelineSemaphore",
                  "dynamicRendering", "shaderDeviceClock", "rayTracingPipeline",
                  "accelerationStructure"}

\* PhysicalDeviceFeatures::new: names left in the set after every flag took its
\* own; new panics when there are any
UnknownFeatures(list) == list \ KnownFeatures

\* PhysicalDeviceFeatures::new: the flags named in the list are set; a
\* PhysicalDeviceFeatures value is the set of its flags that are TRUE
PhysicalDeviceFeaturesNew(list) == {name \in KnownFeatures : name \in list}

\* any_used!: some flag of the struct is set
AnyUsed(self, group) == \E name \in self : FeatureGroup(name) = group

\* self after get_physical_device_features2(inner, &mut self.vulkan_features()):
\* the driver overwrites the structs it is handed.  A chained struct is pushed by
\* reference, and only if one of its flags is set; the core struct is handed over as
\* a copy (.features(self.features)), so self.features keeps the flags it had
FeaturesAfterQuery(self, supported) ==
    {name \in KnownFeatures :
        IF FeatureGroup(name) # "features" /\ AnyUsed(self, FeatureGroup(name))
        THEN name \in supported
        ELSE name \in self}

\* get_mask_result!: for every flag set in the mask, whether self has it
GetMaskResult(self, mask) ==
    [ok |-> \A name \in mask : name \in self,
     res |-> [name \in mask |-> name \in self]]

RgbaFormats == <<"R8G8B8A8_SRGB", "R8G8B8A8_UNORM", "R8G8B8A8_SINT", "R8G8B8A8_SNORM",
                 "R8G8B8A8_SSCALED", "R8G8B8A8_UINT">>

AllDepthFormats == <<"D24_UNORM_S8_UINT", "D16_UNORM", "D16_UNORM_S8_UINT", "D32_SFLOAT",
                     "D32_SFLOAT_S8_UINT">>

PresentModePrio == <<"FIFO_RELAXED", "FIFO", "MAILBOX", "SHARED_CONTINUOUS_REFRESH",
                     "SHARED_DEMAND_REFRESH", "IMMEDIATE">>

\* the elements of seq that are in set, in the order of seq
Keep(seq, set) == LET Test(x) == x \in set IN SelectSeq(seq, Test)

\* the modes in the order the driver reports them
SortedSupportedPresentModes_AsReported(reported) == reported

\* sorted_supported_present_modes: for wanted in present_mode_prio, push wanted if
\* the reported modes contain it
SortedSupportedPresentModes(reported) == Keep(PresentModePrio, Range(reported))

\* PhysicalDeviceCapabilities::new for the device with handle inner; device is what
\* the driver reports for it, cfg the four lists
PhysicalDeviceCapabilitiesNew(inner, device, cfg) ==
    LET queue_families ==
            [i \in DOMAIN device.queue_family_properties |->
                [index |-> i - 1,
                 inner |-> device.queue_family_properties[i],
                 supports_present |-> device.surface_support[i]]]
        HasQueues(f) == f.inner.queue_count > 0
        IsGraphics(f) == /\ HasQueues(f)
                         /\ f.inner.graphics
                         /\ f.inner.compute
                         /\ f.inner.timestamp_valid_bits > 0
        IsPresent(f) == HasQueues(f) /\ f.supports_present
        supported_extensions == device.extension_properties
        required_features == PhysicalDeviceFeaturesNew(cfg.required_device_features)
        res_required_features == FeaturesAfterQuery(required_features, device.features)
        required == GetMaskResult(res_required_features, required_features)
        wanted_features == PhysicalDeviceFeaturesNew(cfg.wanted_device_features)
        res_wanted_features == FeaturesAfterQuery(required_features, device.features)
        wanted == GetMaskResult(res_wanted_features, wanted_features)
    IN  [inner |-> inner,
         name |-> device.device_name,
         device_type |-> device.device_type,
         max_memory_allocation_count |-> device.max_memory_allocation_count,
         limits_ok |-> TRUE,
         queues |-> queue_families,
         graphics_queues |-> SelectSeq(queue_families, IsGraphics),
         present_queues |-> SelectSeq(queue_families, IsPresent),
         required_extensions |->
            [name \in cfg.required_extensions |-> name \in supported_extensions],
         required_extensions_ok |-> \A name \in cfg.required_extensions :
                                        name \in supported_extensions,
         wanted_extensions |->
            [name \in cfg.wanted_extensions |-> name \in supported_extensions],
         wanted_extensions_ok |-> \A name \in cfg.wanted_extensions :
                                      name \in supported_extensions,
         supported_surface_formats |-> device.surface_formats,
         supported_surface_formats_with_storage_bit |->
            Keep(device.surface_formats, device.storage_image_formats),
         render_storage_image_formats |-> Keep(RgbaFormats, device.storage_image_formats),
         supported_depth_formats |-> Keep(AllDepthFormats, device.depth_stencil_formats),
         supported_present_modes |-> SortedSupportedPresentModes(device.present_modes),
         required_device_features |-> required.res,
         required_device_features_ok |-> required.ok,
         wanted_device_features |-> wanted.res,
         wanted_device_features_ok |-> wanted.ok]

(***************************************************************************)
(* Device selection (vulkan/physical_device.rs)                            *)
(***************************************************************************)
\* the orders in which a HashMap with the given keys may be iterated
IterationOrders(keys) ==
    {order \in [1..Cardinality(keys) -> keys] : Range(order) = keys}

\* a "Device Type" block that charges an integrated GPU nothing
TypePenalty_IntegratedFree(device_type) ==
    CASE device_type = "VIRTUAL_GPU" -> -150
      [] device_type = "CPU" -> -100
      [] device_type = "OTHER" -> -10
      [] OTHER -> 0

\* "Device Type" block
TypePenalty(device_type) ==
    CASE device_type = "VIRTUAL_GPU" -> -150
      [] device_type = "CPU" -> -100
      [] device_type = "INTEGRATED_GPU" -> -50
      [] device_type = "OTHER" -> -10
      [] OTHER -> 0

\* a loop that leaves after the first entry it visits
MissingPenalty_FirstEntryOnly(order, map, minus_points) ==
    IF order # <<>> /\ ~map[Head(order)] THEN minus_points - 5 ELSE minus_points

\* for (n, b) in map.iter() { if !b { minus_points -= 5 } }, the entries visited in
\* the given order
RECURSIVE MissingPenalty(_, _, _)
MissingPenalty(order, map, minus_points) ==
    IF order = <<>>
    THEN minus_points
    ELSE MissingPenalty(Tail(order), map,
                        IF map[Head(order)] THEN minus_points ELSE minus_points - 5)

\* the body of the filter_map closure after the name check: ok and minus_points
Judge(c, render_storage_image_format_is_needed, surface_formats_with_storage_bit_is_wanted, extension_order, feature_order) ==
    LET no_storage_bit == c.supported_surface_formats_with_storage_bit = <<>>
        type_points == TypePenalty(c.device_type)
        storage_points ==
            IF no_storage_bit /\ surface_formats_with_storage_bit_is_wanted
            THEN type_points - 10
            ELSE type_points
        extension_points ==
            IF ~c.wanted_device_features_ok
            THEN MissingPenalty(extension_order, c.wanted_extensions, storage_points)
            ELSE storage_points
        feature_points ==
            IF ~c.wanted_device_features_ok
            THEN MissingPenalty(feature_order, c.wanted_device_features, extension_points)
            ELSE extension_points
    IN  [ok |-> /\ c.limits_ok
                /\ c.graphics_queues # <<>>
                /\ c.present_queues # <<>>
                /\ c.supported_surface_formats # <<>>
                /\ ~(/\ no_storage_bit
                     /\ render_storage_image_format_is_needed
                     /\ c.render_storage_image_formats = <<>>)
                /\ c.supported_present_modes # <<>>
                /\ c.required_extensions_ok
                /\ c.required_device_features_ok,
         minus_points |-> feature_points]

\* seen_names.contains(name) when the closure reaches the i-th entry
SeenName(capabilities, i) == \E j \in 1..(i - 1) : capabilities[j].name = capabilities[i].name

\* a comparator that looks at the points alone
SortsBefore_PointsOnly(a, b) == b.minus_points < a.minus_points

\* the comparator of sort_by answers Less for (a, b)
SortsBefore(a, b) ==
    \/ b.minus_points < a.minus_points
    \/ /\ b.minus_points = a.minus_points
       /\ a.c.max_memory_allocation_count < b.c.max_memory_allocation_count

RECURSIVE InsertSorted(_, _)
InsertSorted(sorted, x) ==
    IF sorted = <<>>
    THEN <<x>>
    ELSE IF SortsBefore(x, Head(sorted))
         THEN <<x>> \o sorted
         ELSE <<Head(sorted)>> \o InsertSorted(Tail(sorted), x)

\* slice::sort_by, a stable sort
RECURSIVE SortBy(_)
SortBy(list) ==
    IF list = <<>>
    THEN <<>>
    ELSE InsertSorted(SortBy(SubSeq(list, 1, Len(list) - 1)), list[Len(list)])

\* the part of select after the sort: the first entry of each list of the selected
\* device; indexing an empty list panics
Resolve(c) ==
    LET storage_image_support == c.supported_surface_formats_with_storage_bit # <<>>
    IN  IF \/ ~storage_image_support /\ c.render_storage_image_formats = <<>>
           \/ c.supported_depth_formats = <<>>
        THEN [status |-> "panic"]
        ELSE [status |-> "ok",
              inner |-> c.inner,
              name |-> c.name,
              device_type |-> c.device_type,
              graphics_queue_family |-> c.graphics_queues[1],
              present_queue_family |-> c.present_queues[1],
              wanted_extensions |-> c.wanted_extensions,
              surface_format |->
                 IF storage_image_support
                 THEN c.supported_surface_formats_with_storage_bit[1]
                 ELSE c.supported_surface_formats[1],
              render_storage_image_format |->
                 IF storage_image_support
                 THEN c.supported_surface_formats_with_storage_bit[1]
                 ELSE c.render_storage_image_formats[1],
              depth_format |-> c.supported_depth_formats[1],
              present_mode |-> c.supported_present_modes[1],
              wanted_device_features |-> c.wanted_device_features]

\* the filter_map and the sort_by of select_suitable_physical_device on the cached
\* capabilities: the suitable devices, best first; extension_orders[i] and feature_orders[i] are the orders in which the wanted maps
\* of the i-th entry are iterated
SuitableDevices(capabilities, render_storage_image_format_is_needed, surface_formats_with_storage_bit_is_wanted, extension_orders, feature_orders) ==
    LET Verdict(i) == Judge(capabilities[i], render_storage_image_format_is_needed,
                            surface_formats_with_storage_bit_is_wanted,
                            extension_orders[i], feature_orders[i])
        Passes(i) == ~SeenName(capabilities, i) /\ Verdict(i).ok
        passing == SelectSeq(Iota(Len(capabilities)), Passes)
        suitable ==
            [k \in DOMAIN passing |->
                [c |-> capabilities[passing[k]],
                 minus_points |-> Verdict(passing[k]).minus_points]]
    IN  SortBy(suitable)

\* Instance::select_suitable_physical_device on the cached capabilities
SelectSuitablePhysicalDevice(capabilities, render_storage_image_format_is_needed, surface_formats_with_storage_bit_is_wanted, extension_orders, feature_orders) ==
    LET sorted == SuitableDevices(capabilities, render_storage_image_format_is_needed,
                                  surface_formats_with_storage_bit_is_wanted,
                                  extension_orders, feature_orders)
    IN  IF sorted = <<>>
        THEN [status |-> "err", message |-> "No suitable Device found!"]
        ELSE Resolve(sorted[1].c)

\* a load that probes the devices on every call
LoadPossible_NoCache(cache, devices, cfg) ==
    [i \in DOMAIN devices |-> PhysicalDeviceCapabilitiesNew(i, devices[i], cfg)]

\* physical_devices_capabilities after load_possible_physical_devices_capabilities
\* returned Ok: a non-empty list is kept, an empty one is filled by probing what
\* enumerate_physical_devices reports
LoadPossible(cache, devices, cfg) ==
    IF cache # <<>>
    THEN cache
    ELSE [i \in DOMAIN devices |-> PhysicalDeviceCapabilitiesNew(i, devices[i], cfg)]

\* Instance::load_possible_physical_devices_capabilities
LoadCapabilities ==
    /\ pc = "startup"
    /\ physical_device.status # "panic"
    /\ IF /\ physical_devices_capabilities = <<>>
          /\ physical_devices # <<>>
          /\ \/ UnknownFeatures(config.required_device_features) # {}
             \/ UnknownFeatures(config.wanted_device_features) # {}
       THEN /\ physical_device' = [status |-> "panic"]
            /\ UNCHANGED <<physical_devices_capabilities, loaded>>
       ELSE /\ physical_devices_capabilities' =
                  LoadPossible(physical_devices_capabilities, physical_devices, config)
            /\ loaded' = TRUE
            /\ UNCHANGED physical_device
    /\ UNCHANGED <<frameVars, swapVars, heapVars, engine_config, debug_assertions,
                   physical_devices, config, devices_capabilities, select_runs, hotVars>>

\* Instance::select_suitable_physical_device, which Context::new calls once load
\* has returned
SelectDevice ==
    /\ pc = "startup"
    /\ loaded
    /\ select_runs < MaxSelects
    /\ \E extension_orders \in [DOMAIN physical_devices_capabilities ->
                                    IterationOrders(config.wanted_extensions)],
          feature_orders \in [DOMAIN physical_devices_capabilities ->
                                  IterationOrders(config.wanted_device_features)] :
          /\ physical_device' =
                SelectSuitablePhysicalDevice(physical_devices_capabilities,
                    config.render_storage_image_format_is_needed,
                    config.surface_formats_with_storage_bit_is_wanted,
                    extension_orders, feature_orders)
          /\ devices_capabilities' =
                LET sorted == SuitableDevices(physical_devices_capabilities,
                                  config.render_storage_image_format_is_needed,
                                  config.surface_formats_with_storage_bit_is_wanted,
                                  extension_orders, feature_orders)
                IN  [k \in DOMAIN sorted |->
                        [inner |-> sorted[k].c.inner,
                         minus_points |-> sorted[k].minus_points]]
    /\ select_runs' = select_runs + 1
    /\ UNCHANGED <<frameVars, swapVars, heapVars, engine_config, debug_assertions,
                   physical_devices, config, physical_devices_capabilities, loaded, hotVars>>

NextSelect ==
    \/ LoadCapabilities
    \/ SelectDevice

\* a later call of load_possible_physical_devices_capabilities with other lists
LoadAgain(configs) ==
    /\ pc = "startup"
    /\ loaded
    /\ \E cfg \in configs :
          /\ config' = cfg
          /\ physical_devices_capabilities' =
                LoadPossible(physical_devices_capabilities, physical_devices, cfg)
    /\ UNCHANGED <<frameVars, swapVars, heapVars, engine_config, debug_assertions,
                   physical_devices, physical_device, devices_capabilities, loaded,
                   select_runs, hotVars>>

(***************************************************************************)
(* Engine::new                                                             *)
(***************************************************************************)
ImageIndices(n) == 0..(n - 1)

\* Engine::new has returned: the rings of in_flight slots are fresh, the swapchain
\* has one of the given numbers of images
InitEngine(in_flight, images, limit) ==
    \E n \in in_flight, capabilities \in FrameCapabilities :
    \E m \in images \cap (NewImageCount(capabilities)..MaxImages) :
        /\ pc = "loop"
        /\ is_swapchain_dirty = FALSE
        /\ window_zero = FALSE
        /\ num_frames_in_flight = n
        /\ current_frame = 0
        /\ fence = [i \in 0..(n - 1) |-> TRUE]
        /\ image_available_semaphore = [i \in 0..(n - 1) |-> FALSE]
        /\ render_finished_semaphore = [i \in 0..(n - 1) |-> FALSE]
        /\ timing_query_pool = [i \in 0..(n - 1) |-> "unwritten"]
        /\ total_frame_count = 0
        /\ frame_limit = limit
        /\ gpu_time = 0
        /\ frame_index = 0
        /\ command_buffers = m
        /\ swapchain = SwapchainNew(capabilities, 1, 1, 1, Iota(m))
        /\ live_swapchains = {1}
        /\ double_destroy = FALSE
        /\ swap_call = NoCall
        /\ engine_config = NoEngineConfig
        /\ debug_assertions = FALSE
        /\ physical_devices = <<>>
        /\ config = NoConfig
        /\ physical_devices_capabilities = <<>>
        /\ physical_device = NoDevice
        /\ devices_capabilities = <<>>
        /\ loaded = FALSE
        /\ select_runs = 0
        /\ HeapUnused
        /\ HotReloadUnused
        /\ gpu_queue = <<>>
        /\ image_state = [i \in ImageIndices(m) |-> "free"]
        /\ present_wait = [i \in ImageIndices(m) |-> -1]
        /\ present_queue = <<>>
        /\ frame = NoFrame

\* any ring size and image count within the bounds
InitFrame == InitEngine(1..MaxInFlight, 1..MaxImages, MaxFrames)

\* any ring size on a swapchain of MaxImages images, followed for LiveFrames draw calls
InitLive == InitEngine(1..MaxInFlight, {MaxImages}, LiveFrames)

\* the engine as Engine::new builds it (num_frames_in_flight = 2) on a swapchain of
\* three images, followed for ScenarioFrames draw calls
InitScenario == InitEngine({2}, {3}, ScenarioFrames)

(***************************************************************************)
(* Engine::draw (engine.rs), one action per step between blocking calls    *)
(***************************************************************************)
\* a wait that returns without the fence being signaled (a zero timeout)
FenceWaitReturns_NoWait(slot) == TRUE

\* Fence::wait(None) returns
FenceWaitReturns(slot) == fence[slot]

\* the condition under which draw reads the query pool
ReadsGpuTime(count, in_flight) == count >= in_flight

\* the match on acquire_next_image with ERROR_OUT_OF_DATE_KHR taken as success
AcquireOutcome_OutOfDateContinues(r) ==
    CASE r \in {"ok", "suboptimal", "out_of_date"} -> "continue"
      [] OTHER -> "panic"

\* what draw does with the result of acquire_next_image
AcquireOutcome(r) ==
    CASE r \in {"ok", "suboptimal"} -> "continue"
      [] r = "out_of_date" -> "return_true"
      [] OTHER -> "panic"

\* the match on queue_present without its ERROR_OUT_OF_DATE_KHR arm
PresentOutcome_OutOfDateFatal(r) ==
    CASE r = "ok" -> "return_false"
      [] r = "suboptimal" -> "return_true"
      [] OTHER -> "panic"

\* the match on queue_present with every Err taken as needs-resize
PresentOutcome_ErrorMarksDirty(r) ==
    CASE r = "ok" -> "return_false"
      [] OTHER -> "return_true"

\* what draw does with the result of queue_present
PresentOutcome(r) ==
    CASE r = "ok" -> "return_false"
      [] r = "suboptimal" -> "return_true"
      [] r = "out_of_date" -> "return_true"
      [] OTHER -> "panic"

\* run(): is_swapchain_dirty = engine.draw(..).expect("Failed to tick")
DrawReturns(fr, outcome) ==
    /\ frame' = [fr EXCEPT !.result = outcome]
    /\ IF outcome = "return_true"
       THEN pc' = "loop" /\ is_swapchain_dirty' = TRUE
       ELSE IF outcome = "return_false"
       THEN pc' = "loop" /\ is_swapchain_dirty' = FALSE
       ELSE pc' = "panicked" /\ UNCHANGED is_swapchain_dirty

\* entry of draw: in_flight_frames.next()
DrawEnter(recreated) ==
    /\ current_frame' = InFlightNext(current_frame, num_frames_in_flight)
    /\ frame' = [NoFrame EXCEPT !.slot = current_frame', !.count = total_frame_count,
                               !.recreated = recreated,
                               !.after_needs_resize = NeedsResize(frame)]
    /\ pc' = "wait_fence"

\* in_flight_frames.fence().wait(None)
FenceWait ==
    /\ pc = "wait_fence"
    /\ FenceWaitReturns(current_frame)
    /\ pc' = "gpu_time"
    /\ UNCHANGED <<is_swapchain_dirty, window_zero, num_frames_in_flight,
                   frame_limit, current_frame,
                   fence, image_available_semaphore, render_finished_semaphore,
                   timing_query_pool, total_frame_count, gpu_time, frame_index,
                   command_buffers, gpu_queue, image_state, present_wait, present_queue, frame, swapVars, selVars, heapVars, hotVars>>

\* gpu_time = (total_frame_count >= num_frames_in_flight).then(gpu_frame_time_ms);
\* set_gpu_time; tick.  wait_for_all_results blocks until the pool has results
GpuTime ==
    /\ pc = "gpu_time"
    /\ IF ReadsGpuTime(total_frame_count, num_frames_in_flight)
       THEN /\ timing_query_pool[current_frame] = "written"
            /\ \E result \in TimestampResults : gpu_time' = GpuFrameTime(result)
            /\ frame' = [frame EXCEPT !.pool_read = TRUE]
       ELSE /\ gpu_time' = 0
            /\ UNCHANGED frame
    /\ total_frame_count' = total_frame_count + 1
    /\ pc' = "acquire"
    /\ UNCHANGED <<is_swapchain_dirty, window_zero, num_frames_in_flight,
                   frame_limit, current_frame,
                   fence, image_available_semaphore, render_finished_semaphore,
                   timing_query_pool, frame_index, command_buffers, gpu_queue,
                   image_state, present_wait, present_queue, swapVars, selVars, heapVars, hotVars>>

\* swapchain.acquire_next_image(u64::MAX, image_available_semaphore()) and the match on it
Acquire ==
    /\ pc = "acquire"
    /\ \E r \in {"ok", "suboptimal", "out_of_date", "error"} :
        IF AcquireOutcome(r) = "continue"
        THEN \E i \in DOMAIN image_state :
                /\ image_state[i] = "free"
                /\ image_state' = [image_state EXCEPT ![i] = "acquired"]
                /\ frame_index' = i
                /\ image_available_semaphore' =
                      [image_available_semaphore EXCEPT
                          ![ImageAvailableIndex(current_frame)] = TRUE]
                /\ frame' = [frame EXCEPT !.acquire = r,
                                          !.semaphore = ImageAvailableIndex(current_frame)]
                /\ pc' = "reset_fence"
                /\ UNCHANGED is_swapchain_dirty
        ELSE /\ DrawReturns([frame EXCEPT !.acquire = r,
                                          !.semaphore = ImageAvailableIndex(current_frame)],
                            AcquireOutcome(r))
             /\ UNCHANGED <<image_state, frame_index, image_available_semaphore>>
    /\ UNCHANGED <<window_zero, num_frames_in_flight, frame_limit, current_frame, fence,
                   render_finished_semaphore, timing_query_pool, total_frame_count,
                   gpu_time, command_buffers, gpu_queue, present_wait, present_queue, swapVars, selVars, heapVars, hotVars>>

\* a reset that takes every fence of the ring
FenceAfterReset_AllSlots(fences, slot) == [i \in DOMAIN fences |-> FALSE]

\* Fence::reset on the fence of one slot
FenceAfterReset(fences, slot) == [fences EXCEPT ![slot] = FALSE]

\* in_flight_frames.fence().reset()
ResetFence ==
    /\ pc = "reset_fence"
    /\ fence' = FenceAfterReset(fence, current_frame)
    /\ pc' = "record"
    /\ UNCHANGED <<is_swapchain_dirty, window_zero, num_frames_in_flight,
                   frame_limit, current_frame,
                   image_available_semaphore, render_finished_semaphore, timing_query_pool,
                   total_frame_count, gpu_time, frame_index, command_buffers, gpu_queue,
                   image_state, present_wait, present_queue, frame, swapVars, selVars, heapVars, hotVars>>

\* binding.update and record_command_buffer: either callback may return Err, and
\* command_buffers[frame_index] panics when the index is out of range
Record ==
    /\ pc = "record"
    /\ \E ok \in BOOLEAN :
        IF ok /\ CommandBufferIndex(current_frame, frame_index) < command_buffers
        THEN pc' = "submit" /\ UNCHANGED <<frame, is_swapchain_dirty>>
        ELSE DrawReturns(frame, "panic")
    /\ UNCHANGED <<window_zero, num_frames_in_flight, frame_limit, current_frame, fence,
                   image_available_semaphore, render_finished_semaphore, timing_query_pool,
                   total_frame_count, gpu_time, frame_index, command_buffers, gpu_queue,
                   image_state, present_wait, present_queue, swapVars, selVars, heapVars, hotVars>>

\* graphics_queue.submit(command_buffers[frame_index], wait image_available_semaphore(),
\* signal render_finished_semaphore(), fence())?: the submission is queued, or the
\* call returns Err
Submit ==
    /\ pc = "submit"
    /\ \E ok \in BOOLEAN :
        IF ok
        THEN LET signal == RenderFinishedIndex(current_frame, frame_index)
             IN  /\ gpu_queue' = Append(gpu_queue,
                        [slot |-> current_frame, image |-> frame_index,
                         buffer |-> CommandBufferIndex(current_frame, frame_index),
                         wait |-> ImageAvailableIndex(current_frame), signal |-> signal])
                 /\ frame' = [frame EXCEPT !.signal = signal]
                 /\ pc' = "present"
                 /\ UNCHANGED is_swapchain_dirty
        ELSE DrawReturns(frame, "panic") /\ UNCHANGED gpu_queue
    /\ UNCHANGED <<window_zero, num_frames_in_flight,
                   frame_limit, current_frame,
                   fence, image_available_semaphore, render_finished_semaphore,
                   timing_query_pool, total_frame_count, gpu_time, frame_index,
                   command_buffers, image_state, present_wait, present_queue, swapVars, selVars, heapVars, hotVars>>

\* swapchain.queue_present(frame_index, [render_finished_semaphore()], present_queue)
\* and the match on it
Present ==
    /\ pc = "present"
    /\ \E r \in {"ok", "suboptimal", "out_of_date", "error"} :
        LET wait == RenderFinishedIndex(current_frame, frame_index)
        IN  /\ DrawReturns([frame EXCEPT !.present = r, !.wait = wait], PresentOutcome(r))
            /\ image_state' = [image_state EXCEPT ![frame_index] = "queued"]
            /\ present_wait' = [present_wait EXCEPT ![frame_index] = wait]
            /\ present_queue' = Append(present_queue, frame_index)
    /\ UNCHANGED <<window_zero, num_frames_in_flight, frame_limit, current_frame, fence,
                   image_available_semaphore, render_finished_semaphore, timing_query_pool,
                   total_frame_count, gpu_time, frame_index, command_buffers, gpu_queue,
                   swapVars, selVars, heapVars, hotVars>>

(***************************************************************************)
(* run (lib.rs): the event loop                                            *)
(***************************************************************************)
\* WindowEvent::Resized
Resized ==
    /\ pc = "loop"
    /\ \E zero \in BOOLEAN : window_zero' = zero
    /\ is_swapchain_dirty' = TRUE
    /\ UNCHANGED <<pc, num_frames_in_flight, frame_limit, current_frame, fence,
                   image_available_semaphore, render_finished_semaphore, timing_query_pool,
                   total_frame_count, gpu_time, frame_index, command_buffers, gpu_queue,
                   image_state, present_wait, present_queue, frame, swapVars, selVars, heapVars, hotVars>>

\* a loop that draws whether or not the swapchain is dirty
LoopStep_DrawWhenDirty(dirty, zero) == "draw"

\* an arm that recreates without looking at the window size
LoopStep_IgnoreSize(dirty, zero) == IF dirty THEN "recreate" ELSE "draw"

\* the branch Event::AboutToWait takes
LoopStep(dirty, zero) ==
    IF dirty
    THEN IF zero THEN "return" ELSE "recreate"
    ELSE "draw"

\* Event::AboutToWait up to the first blocking call
AboutToWait ==
    /\ pc = "loop"
    /\ total_frame_count < frame_limit
    /\ LoopStep(is_swapchain_dirty, window_zero) # "return"
    /\ IF LoopStep(is_swapchain_dirty, window_zero) = "recreate"
       THEN /\ pc' = "wait_for_gpu"
            /\ UNCHANGED <<current_frame, frame>>
       ELSE DrawEnter(FALSE)
    /\ UNCHANGED <<is_swapchain_dirty, window_zero, num_frames_in_flight,
                   frame_limit, fence,
                   image_available_semaphore, render_finished_semaphore, timing_query_pool,
                   total_frame_count, gpu_time, frame_index, command_buffers, gpu_queue,
                   image_state, present_wait, present_queue, swapVars, selVars, heapVars, hotVars>>

\* engine.recreate_swapchain(dim.width, dim.height) once device_wait_idle has returned
RecreateSwapchain ==
    /\ pc = "wait_for_gpu"
    /\ DeviceWaitIdleReturns(gpu_queue)
    /\ \E capabilities \in FrameCapabilities,
          outcome \in {"ok", "caps", "create", "images"} :
       \E m \in ResizeImageCount(capabilities)..MaxImages :
        LET handle == FreshHandle(live_swapchains \ {swapchain.swapchain_khr})
        IN  /\ swapchain' = SwapchainResize(swapchain, capabilities, 1, 1, handle,
                                            Iota(m), outcome)
            /\ live_swapchains' = LiveAfterResize(swapchain, live_swapchains, handle, outcome)
            /\ double_destroy' =
                  (double_destroy \/ swapchain.swapchain_khr \notin live_swapchains)
            /\ present_queue' = <<>>
            /\ IF outcome = "ok"
               THEN /\ image_state' = [i \in ImageIndices(m) |-> "free"]
                    /\ present_wait' = [i \in ImageIndices(m) |-> -1]
                    /\ render_finished_semaphore' =
                          [i \in DOMAIN render_finished_semaphore |-> FALSE]
               ELSE /\ image_state' = [i \in {} |-> "free"]
                    /\ present_wait' = [i \in {} |-> -1]
                    /\ UNCHANGED render_finished_semaphore
            /\ pc' = IF outcome = "ok" THEN "on_recreate_swapchain" ELSE "panicked"
    /\ UNCHANGED <<is_swapchain_dirty, window_zero, num_frames_in_flight,
                   frame_limit, current_frame, fence,
                   image_available_semaphore, timing_query_pool, total_frame_count,
                   gpu_time, frame_index, command_buffers, gpu_queue, frame,
                   swap_call, selVars, heapVars, hotVars>>

\* binding.on_recreate_swapchain(..).expect(..), and the entry of the draw call that
\* follows it
OnRecreateSwapchain ==
    /\ pc = "on_recreate_swapchain"
    /\ \E callback_ok \in BOOLEAN :
        IF callback_ok
        THEN DrawEnter(TRUE)
        ELSE pc' = "panicked" /\ UNCHANGED <<current_frame, frame>>
    /\ UNCHANGED <<is_swapchain_dirty, window_zero, num_frames_in_flight,
                   frame_limit, fence,
                   image_available_semaphore, render_finished_semaphore, timing_query_pool,
                   total_frame_count, gpu_time, frame_index, command_buffers, gpu_queue,
                   image_state, present_wait, present_queue, swapVars, selVars, heapVars, hotVars>>

\* WindowEvent::CloseRequested => elwt.exit()
CloseRequested ==
    /\ pc = "loop"
    /\ pc' = "exiting"
    /\ UNCHANGED <<is_swapchain_dirty, window_zero, num_frames_in_flight,
                   frame_limit, current_frame,
                   fence, image_available_semaphore, render_finished_semaphore,
                   timing_query_pool, total_frame_count, gpu_time, frame_index,
                   command_buffers, gpu_queue, image_state, present_wait, present_queue, frame, swapVars, selVars, heapVars, hotVars>>

\* Event::LoopExiting: engine.wait_for_gpu() returns
LoopExiting ==
    /\ pc = "exiting"
    /\ DeviceWaitIdleReturns(gpu_queue)
    /\ pc' = "stopped"
    /\ UNCHANGED <<is_swapchain_dirty, window_zero, num_frames_in_flight,
                   frame_limit, current_frame,
                   fence, image_available_semaphore, render_finished_semaphore,
                   timing_query_pool, total_frame_count, gpu_time, frame_index,
                   command_buffers, gpu_queue, image_state, present_wait, present_queue, frame, swapVars, selVars, heapVars, hotVars>>

\* the closure handed to event_loop.run is dropped, and the Engine it owns with it:
\* after run's loop has exited, or while a panic unwinds (a build that aborts on
\* panic never takes this step). Swapchain::drop calls destroy
EngineDrop ==
    /\ pc \in {"stopped", "panicked"}
    /\ pc' = "dropped"
    /\ swapchain' = SwapchainDestroy(swapchain)
    /\ live_swapchains' = live_swapchains \ {swapchain.swapchain_khr}
    /\ double_destroy' = (double_destroy \/ swapchain.swapchain_khr \notin live_swapchains)
    /\ UNCHANGED <<is_swapchain_dirty, window_zero, num_frames_in_flight,
                   frame_limit, current_frame,
                   fence, image_available_semaphore, render_finished_semaphore,
                   timing_query_pool, total_frame_count, gpu_time, frame_index,
                   command_buffers, gpu_queue, image_state, present_wait, present_queue,
                   frame, swap_call, selVars, heapVars, hotVars>>

Next ==
    \/ AboutToWait
    \/ RecreateSwapchain
    \/ OnRecreateSwapchain
    \/ FenceWait
    \/ GpuTime
    \/ Acquire
    \/ ResetFence
    \/ Record
    \/ Submit
    \/ Present
    \/ Resized
    \/ CloseRequested
    \/ LoopExiting
    \/ EngineDrop
    \/ GpuComplete
    \/ PresentRelease

Spec == InitFrame /\ [][Next]_vars

SpecScenario == InitScenario /\ [][Next]_vars

\* the frame loop on a GPU that finishes every submission, with a main thread that
\* goes on when the fence wait it blocks in can return
SpecLive == InitLive /\ [][Next]_vars /\ WF_vars(GpuComplete) /\ WF_vars(FenceWait)

TypeOK ==
    /\ current_frame \in Slots
    /\ total_frame_count \in 0..frame_limit
    /\ Len(gpu_queue) <= num_frames_in_flight

(***************************************************************************)
(* Swapchain on its own: new, resize, drop                                 *)
(***************************************************************************)
\* the frame loop is not running; the main thread is at the given position
FrameLoopUnused(position) ==
    /\ pc = position
    /\ is_swapchain_dirty = FALSE
    /\ window_zero = FALSE
    /\ num_frames_in_flight = 1
    /\ current_frame = 0
    /\ fence = [i \in 0..0 |-> TRUE]
    /\ image_available_semaphore = [i \in 0..0 |-> FALSE]
    /\ render_finished_semaphore = [i \in 0..0 |-> FALSE]
    /\ timing_query_pool = [i \in 0..0 |-> "unwritten"]
    /\ total_frame_count = 0
    /\ frame_limit = 0
    /\ gpu_time = 0
    /\ frame_index = 0
    /\ command_buffers = 0
    /\ gpu_queue = <<>>
    /\ image_state = [i \in {} |-> "free"]
    /\ present_wait = [i \in {} |-> -1]
    /\ present_queue = <<>>
    /\ frame = NoFrame

\* the selected device as far as Swapchain reads it: the indices of its graphics
\* and present queue families, equal or not
QueueFamilyChoices ==
    {[status |-> "ok", graphics_queue_family |-> [index |-> 0],
      present_queue_family |-> [index |-> p]] : p \in {0, 1}}

\* no device selection is under study; the context holds one of the given devices
SelectionUnused(devices) ==
    /\ engine_config = NoEngineConfig
    /\ debug_assertions = FALSE
    /\ physical_devices = <<>>
    /\ config = NoConfig
    /\ physical_devices_capabilities = <<>>
    /\ physical_device \in devices
    /\ devices_capabilities = <<>>
    /\ loaded = FALSE
    /\ select_runs = 0

\* Swapchain::new(context, width, height) returned Ok
InitSwap ==
    \E limits \in SurfaceLimits, current_extent \in CurrentExtents,
       width \in RequestedExtents, height \in RequestedExtents :
      LET capabilities == [limits EXCEPT !.current_extent = current_extent]
      IN  \E m \in NewImageCount(capabilities)..MaxImages :
            /\ swapchain = SwapchainNew(capabilities, width, height, 1, Iota(m))
            /\ live_swapchains = {1}
            /\ double_destroy = FALSE
            /\ SelectionUnused(QueueFamilyChoices)
            /\ swap_call = [op |-> "new", width |-> width, height |-> height,
                            outcome |-> "ok", capabilities |-> capabilities,
                            create_info |->
                                NewCreateInfo(capabilities, width, height,
                                              physical_device)]
            /\ FrameLoopUnused("swapchain")
            /\ HeapUnused
            /\ HotReloadUnused

\* swapchain.resize(context, width, height); the limits of the surface stay, its
\* current extent is whatever the platform reports at the call
SwapResize ==
    /\ swap_call.op # "drop"
    /\ \E current_extent \in CurrentExtents,
          width \in RequestedExtents, height \in RequestedExtents,
          outcome \in {"ok", "caps", "create", "images"} :
        LET capabilities == [swap_call.capabilities EXCEPT !.current_extent = current_extent]
            handle == FreshHandle(live_swapchains \ {swapchain.swapchain_khr})
            returned == IF outcome = "ok"
                        THEN {Iota(m) : m \in ResizeImageCount(capabilities)..MaxImages}
                        ELSE {<<>>}
        IN  \E images \in returned :
              /\ swapchain' = SwapchainResize(swapchain, capabilities, width, height,
                                              handle, images, outcome)
              /\ live_swapchains' =
                    LiveAfterResize(swapchain, live_swapchains, handle, outcome)
              /\ double_destroy' =
                    (double_destroy \/ swapchain.swapchain_khr \notin live_swapchains)
              /\ swap_call' = [op |-> "resize", width |-> width, height |-> height,
                               outcome |-> outcome, capabilities |-> capabilities,
                               create_info |->
                                   IF outcome = "caps"
                                   THEN NoCreateInfo
                                   ELSE ResizeCreateInfo(capabilities, width, height,
                                                         physical_device)]
    /\ UNCHANGED <<frameVars, selVars, heapVars, hotVars>>

\* impl Drop for Swapchain
SwapDrop ==
    /\ swap_call.op # "drop"
    /\ swapchain' = SwapchainDestroy(swapchain)
    /\ live_swapchains' = live_swapchains \ {swapchain.swapchain_khr}
    /\ double_destroy' = (double_destroy \/ swapchain.swapchain_khr \notin live_swapchains)
    /\ swap_call' = [swap_call EXCEPT !.op = "drop", !.outcome = "ok"]
    /\ UNCHANGED <<frameVars, selVars, heapVars, hotVars>>

NextSwap ==
    \/ SwapResize
    \/ SwapDrop

SpecSwap == InitSwap /\ [][NextSwap]_vars

(***************************************************************************)
(* Device selection on its own: load, then select                          *)
(***************************************************************************)
\* no swapchain exists yet
SwapchainUnused ==
    /\ swapchain = [swapchain_khr |-> NullHandle, size |-> <<0, 0>>,
                    images_and_views |-> <<>>, depht_images_and_views |-> <<>>]
    /\ live_swapchains = {}
    /\ double_destroy = FALSE
    /\ swap_call = NoCall

\* a device that meets every hard requirement when nothing is required
BaseDevice ==
    [device_name |-> "gpu_a",
     device_type |-> "DISCRETE_GPU",
     max_memory_allocation_count |-> 1,
     queue_family_properties |-> <<[queue_count |-> 1, graphics |-> TRUE, compute |-> TRUE,
                                    timestamp_valid_bits |-> 1]>>,
     surface_support |-> <<TRUE>>,
     extension_properties |-> {},
     features |-> {},
     surface_formats |-> <<"B8G8R8A8_UNORM">>,
     storage_image_formats |-> {"R8G8B8A8_UNORM"},
     depth_stencil_formats |-> {"D32_SFLOAT"},
     present_modes |-> <<"FIFO">>]

DeviceNames == {"gpu_a", "gpu_b"}

\* what enumerate_physical_devices may return: up to MaxDevices devices
DeviceLists(devices) == UNION {[1..n -> devices] : n \in 0..MaxDevices}

\* Context::new before it calls load_possible_physical_devices_capabilities
InitSelect(devices, configs) ==
    /\ engine_config = NoEngineConfig
    /\ debug_assertions = FALSE
    /\ physical_devices \in DeviceLists(devices)
    /\ config \in configs
    /\ physical_devices_capabilities = <<>>
    /\ physical_device = NoDevice
    /\ devices_capabilities = <<>>
    /\ loaded = FALSE
    /\ select_runs = 0
    /\ HeapUnused
    /\ HotReloadUnused
    /\ FrameLoopUnused("startup")
    /\ SwapchainUnused

RequiredExtensionNames == {"VK_KHR_swapchain"}

RequiredFeatureNames == {"geometryShader", "bufferDeviceAddress"}

\* devices that differ in what they support of the required names
RequiredDevices ==
    {[BaseDevice EXCEPT !.device_name = n, !.extension_properties = e, !.features = f] :
        n \in DeviceNames, e \in SUBSET RequiredExtensionNames,
        f \in SUBSET RequiredFeatureNames}

RequiredConfigs ==
    {[NoConfig EXCEPT !.required_extensions = e, !.required_device_features = f] :
        e \in SUBSET RequiredExtensionNames, f \in SUBSET RequiredFeatureNames}

InitRequired == InitSelect(RequiredDevices, RequiredConfigs)

SpecRequired == InitRequired /\ [][NextSelect]_vars

WantedExtensionNames == {"VK_KHR_shader_clock", "VK_EXT_scalar_block_layout"}

WantedFeatureNames == {"scalarBlockLayout"}

\* devices of two classes that differ in what they support of the wanted names; all
\* of them support bufferDeviceAddress
WantedDevices ==
    {[BaseDevice EXCEPT !.device_name = n, !.device_type = t,
                        !.extension_properties = e,
                        !.features = {"bufferDeviceAddress"} \cup f] :
        n \in DeviceNames, t \in {"DISCRETE_GPU", "INTEGRATED_GPU"},
        e \in {{}, {"VK_KHR_shader_clock"}, WantedExtensionNames},
        f \in SUBSET WantedFeatureNames}

\* both extensions are wanted; the wanted feature is absent, wanted alone, or wanted
\* next to a required feature of the same struct
WantedConfigs ==
    {[NoConfig EXCEPT !.wanted_extensions = WantedExtensionNames,
                      !.wanted_device_features = c[1],
                      !.required_device_features = c[2]] :
        c \in {<<{}, {}>>, <<WantedFeatureNames, {}>>,
               <<WantedFeatureNames, {"bufferDeviceAddress"}>>}}

InitWanted == InitSelect(WantedDevices, WantedConfigs)

SpecWanted == InitWanted /\ [][NextSelect]_vars

NextReload ==
    \/ LoadCapabilities
    \/ LoadAgain(RequiredConfigs)

SpecReload == InitRequired /\ [][NextReload]_vars

\* a device that supports everything HardConfigs ask for
HardBase ==
    [BaseDevice EXCEPT !.extension_properties = RequiredExtensionNames,
                       !.features = {"geometryShader"}]

\* HardBase, and HardBase with one capability taken away
HardVariants ==
    {HardBase,
     [HardBase EXCEPT !.queue_family_properties[1].timestamp_valid_bits = 0],
     [HardBase EXCEPT !.surface_support[1] = FALSE],
     [HardBase EXCEPT !.surface_formats = <<>>],
     [HardBase EXCEPT !.present_modes = <<>>],
     [HardBase EXCEPT !.depth_stencil_formats = {}],
     [HardBase EXCEPT !.storage_image_formats = {}],
     [HardBase EXCEPT !.extension_properties = {}],
     [HardBase EXCEPT !.features = {}]}

HardDevices == {[d EXCEPT !.device_name = n] : d \in HardVariants, n \in DeviceNames}

\* the swapchain extension is required; a core feature is required or not, a render
\* storage image format is needed or not
HardConfigs ==
    {[NoConfig EXCEPT !.required_extensions = RequiredExtensionNames,
                      !.required_device_features = f,
                      !.render_storage_image_format_is_needed = needed] :
        f \in {{}, {"geometryShader"}}, needed \in BOOLEAN}

InitHard == InitSelect(HardDevices, HardConfigs)

SpecHard == InitHard /\ [][NextSelect]_vars

\* suitable devices that differ in name, class and max_memory_allocation_count
OrderDevices ==
    {[BaseDevice EXCEPT !.device_name = n, !.device_type = t,
                        !.max_memory_allocation_count = a] :
        n \in DeviceNames, t \in {"DISCRETE_GPU", "INTEGRATED_GPU"}, a \in {1, 2}}

InitOrder == InitSelect(OrderDevices, {NoConfig})

SpecOrder == InitOrder /\ [][NextSelect]_vars

ReportedModes == {"FIFO", "MAILBOX", "IMMEDIATE"}

\* what get_physical_device_surface_present_modes may return: some of the modes, each
\* once, in any order
PresentModeLists ==
    {m \in UNION {[1..n -> ReportedModes] : n \in 0..Cardinality(ReportedModes)} :
        \A i, j \in DOMAIN m : i # j => m[i] # m[j]}

\* suitable devices that differ in name and in the present modes they report
PresentDevices ==
    {[BaseDevice EXCEPT !.device_name = n, !.present_modes = m] :
        n \in DeviceNames, m \in PresentModeLists}

InitPresent == InitSelect(PresentDevices, {NoConfig})

SpecPresent == InitPresent /\ [][NextSelect]_vars

(***************************************************************************)
(* Context::new (vulkan/context.rs): the lists built from the EngineConfig *)
(***************************************************************************)
EngineFeatureValues == {"NotUsed", "Wanted", "Needed"}

\* the extensions and features Context::new pushes in either branch of the if on
\* each optional capability
CapabilityNames ==
    [shader_debug_printing |->
        [extensions |-> {"VK_KHR_shader_non_semantic_info"},
         features |-> {"timelineSemaphore"}],
     shader_debug_clock |->
        [extensions |-> {"VK_KHR_shader_clock"}, features |-> {"deviceClock"}],
     gl_ext_scalar_block_layout |->
        [extensions |-> {"VK_EXT_scalar_block_layout"}, features |-> {}],
     ray_tracing |->
        [extensions |-> {"VK_KHR_ray_tracing_pipeline", "VK_KHR_acceleration_structure",
                         "VK_KHR_deferred_host_operations"},
         features |-> {"rayTracingPipeline", "accelerationStructure",
                       "runtimeDescriptorArray", "bufferDeviceAddress"}]]

\* what Context::new requires whatever the configuration says
AlwaysRequired ==
    [extensions |-> {"VK_KHR_swapchain", "VK_KHR_dynamic_rendering",
                     "VK_KHR_synchronization2"},
     features |-> {"dynamicRendering", "synchronization2"}]

\* the names of field (extensions or features) of the capabilities in caps whose
\* level in cfg is value
NamesAt(cfg, caps, value, field) ==
    UNION {CapabilityNames[cap][field] : cap \in {c \in caps : cfg[c] = value}}

\* the four lists and the two flags Context::new hands to load and select; the
\* statement on shader_debug_printing is compiled only with debug_assertions
ContextLists(cfg, debug) ==
    LET printing == IF debug THEN {"shader_debug_printing"} ELSE {}
        plain == printing \cup {"shader_debug_clock", "gl_ext_scalar_block_layout"}
        needed == \/ cfg.ray_tracing = "Needed"
                  \/ cfg.compute_rendering = "Needed"
    IN  [required_extensions |->
            AlwaysRequired.extensions
                \cup NamesAt(cfg, plain, "Needed", "extensions")
                \cup NamesAt(cfg, {"ray_tracing"}, "Wanted", "extensions"),
         wanted_extensions |->
            NamesAt(cfg, plain, "Wanted", "extensions")
                \cup NamesAt(cfg, {"ray_tracing"}, "Needed", "extensions"),
         required_device_features |->
            AlwaysRequired.features
                \cup NamesAt(cfg, plain, "Needed", "features")
                \cup NamesAt(cfg, {"ray_tracing"}, "Wanted", "features"),
         wanted_device_features |->
            NamesAt(cfg, plain, "Wanted", "features")
                \cup NamesAt(cfg, {"shader_debug_clock"}, "Needed", "features")
                \cup NamesAt(cfg, {"ray_tracing"}, "Needed", "features"),
         render_storage_image_format_is_needed |-> needed,
         surface_formats_with_storage_bit_is_wanted |->
            \/ needed
            \/ cfg.ray_tracing = "Wanted"
            \/ cfg.compute_rendering = "Wanted"]

\* Context::new up to its call of load_possible_physical_devices_capabilities
ContextNew ==
    /\ pc = "context"
    /\ pc' = "startup"
    /\ config' = ContextLists(engine_config, debug_assertions)
    /\ UNCHANGED <<is_swapchain_dirty, window_zero, num_frames_in_flight, current_frame,
                   fence, image_available_semaphore, render_finished_semaphore,
                   timing_query_pool, total_frame_count, frame_limit, gpu_time,
                   frame_index, command_buffers, gpu_queue, image_state, present_wait,
                   present_queue, frame, swapVars, heapVars, engine_config, debug_assertions,
                   physical_devices, physical_devices_capabilities, physical_device,
                   devices_capabilities, loaded, select_runs, hotVars>>

EngineConfigs ==
    [ray_tracing : EngineFeatureValues, compute_rendering : EngineFeatureValues,
     shader_debug_printing : EngineFeatureValues,
     shader_debug_clock : EngineFeatureValues,
     gl_ext_scalar_block_layout : EngineFeatureValues]

\* a device that supports every name Context::new may ask for
FullDevice ==
    [BaseDevice EXCEPT
        !.extension_properties =
            AlwaysRequired.extensions
                \cup UNION {CapabilityNames[c].extensions : c \in DOMAIN CapabilityNames},
        !.features =
            AlwaysRequired.features
                \cup UNION {CapabilityNames[c].features : c \in DOMAIN CapabilityNames}]

\* Context::new is entered with any EngineConfig, in a debug or a release build
InitContext ==
    /\ engine_config \in EngineConfigs
    /\ debug_assertions \in BOOLEAN
    /\ physical_devices \in DeviceLists({FullDevice, BaseDevice})
    /\ config = NoConfig
    /\ physical_devices_capabilities = <<>>
    /\ physical_device = NoDevice
    /\ devices_capabilities = <<>>
    /\ loaded = FALSE
    /\ select_runs = 0
    /\ HeapUnused
    /\ HotReloadUnused
    /\ FrameLoopUnused("context")
    /\ SwapchainUnused

NextContext ==
    \/ ContextNew
    \/ LoadCapabilities

SpecContext == InitContext /\ [][NextContext]_vars

(***************************************************************************)
(* DescriptorHeap on its own: create_image_handle and handle drop          *)
(***************************************************************************)
LiveCount == LET RECURSIVE Sum(_)
                 Sum(set) == IF set = {} THEN 0
                             ELSE LET v == CHOOSE x \in set : TRUE
                                  IN  live_handles[v] + Sum(set \ {v})
             IN  Sum(HandleValues)

\* DescriptorHeap::create_image_handle: alloc, then the descriptor writes; a heap
\* without the descriptor type of the usage returns an error after alloc, and no
\* DescriptorHandle is built
CreateImageHandle ==
    /\ pc = "heap"
    /\ ~heap_panicked
    /\ LiveCount < MaxHandles
    /\ LET r == Alloc(next_free_word_id, used_map)
       IN  /\ next_free_word_id' = r.next_free_word_id
           /\ used_map' = r.used_map
           /\ \E ok \in BOOLEAN :
                 live_handles' = IF ok
                                 THEN [live_handles EXCEPT ![r.value] = @ + 1]
                                 ELSE live_handles
    /\ UNCHANGED <<frameVars, swapVars, selVars, heap_panicked, hotVars>>

\* impl Drop for DescriptorHandle, for a handle of value v
DropHandle ==
    /\ pc = "heap"
    /\ ~heap_panicked
    /\ \E v \in HandleValues :
          /\ live_handles[v] > 0
          /\ live_handles' = [live_handles EXCEPT ![v] = @ - 1]
          /\ used_map' = Free(used_map, v).used_map
          /\ heap_panicked' = Free(used_map, v).panic
    /\ UNCHANGED <<frameVars, swapVars, selVars, next_free_word_id, hotVars>>

\* DescriptorHeap::new returned
InitHeap ==
    /\ HeapUnused
    /\ HotReloadUnused
    /\ FrameLoopUnused("heap")
    /\ SwapchainUnused
    /\ SelectionUnused({NoDevice})

NextHeap ==
    \/ CreateImageHandle
    \/ DropHandle

SpecHeap == InitHeap /\ [][NextHeap]_vars

(***************************************************************************)
(* LibReloader on its own: the build writes the library, the watcher       *)
(* thread runs its closure, the main thread calls update every frame;      *)
(* file operations succeed                                                 *)
(***************************************************************************)
\* the build (or anyone) writes another content to the watched file
ModifyLib ==
    /\ pc = "hot_reload"
    /\ modifications < MaxModifications
    /\ \E content \in Contents \ {watched_lib} : watched_lib' = content
    /\ event_pending' = TRUE
    /\ modifications' = modifications + 1
    /\ UNCHANGED <<frameVars, swapVars, selVars, heapVars, loaded_lib, lib_file_hash,
                   changed, copied_lib, hot_pc>>

\* the watcher thread: the debounced event closure runs
WatcherEvent ==
    /\ pc = "hot_reload"
    /\ event_pending
    /\ event_pending' = FALSE
    /\ changed' = (changed \/ WatcherSetsChanged(watched_lib, lib_file_hash, changed))
    /\ UNCHANGED <<frameVars, swapVars, selVars, heapVars, watched_lib, loaded_lib,
                   lib_file_hash, copied_lib, hot_pc, modifications>>

\* update: can_update() answered true, reload is entered
UpdateEnter ==
    /\ pc = "hot_reload"
    /\ hot_pc = "idle"
    /\ changed
    /\ hot_pc' = "copy"
    /\ UNCHANGED <<frameVars, swapVars, selVars, heapVars, watched_lib, loaded_lib,
                   lib_file_hash, changed, event_pending, copied_lib, modifications>>

\* reload: fs::copy(watched_lib_file, &loaded_lib_file)
ReloadCopy ==
    /\ pc = "hot_reload"
    /\ hot_pc = "copy"
    /\ copied_lib' = watched_lib
    /\ hot_pc' = "store_hash"
    /\ UNCHANGED <<frameVars, swapVars, selVars, heapVars, watched_lib, loaded_lib,
                   lib_file_hash, changed, event_pending, modifications>>

\* reload: lib_file_hash.store(hash_file(&loaded_lib_file))
ReloadStoreHash ==
    /\ pc = "hot_reload"
    /\ hot_pc = "store_hash"
    /\ lib_file_hash' = HashFile(copied_lib)
    /\ hot_pc' = "load"
    /\ UNCHANGED <<frameVars, swapVars, selVars, heapVars, watched_lib, loaded_lib,
                   changed, event_pending, copied_lib, modifications>>

\* reload: self.lib = Some(load_library(&loaded_lib_file)?)
ReloadLoad ==
    /\ pc = "hot_reload"
    /\ hot_pc = "load"
    /\ loaded_lib' = copied_lib
    /\ hot_pc' = "store_changed"
    /\ UNCHANGED <<frameVars, swapVars, selVars, heapVars, watched_lib, lib_file_hash,
                   changed, event_pending, copied_lib, modifications>>

\* update: changed.store(false), return Ok(true)
UpdateStoreChanged ==
    /\ pc = "hot_reload"
    /\ hot_pc = "store_changed"
    /\ changed' = FALSE
    /\ hot_pc' = "idle"
    /\ UNCHANGED <<frameVars, swapVars, selVars, heapVars, watched_lib, loaded_lib,
                   lib_file_hash, event_pending, copied_lib, modifications>>

\* the steps of the main thread
UpdateStep ==
    \/ UpdateEnter
    \/ ReloadCopy
    \/ ReloadStoreHash
    \/ ReloadLoad
    \/ UpdateStoreChanged

\* LibReloader::new returned for a library with some content
InitHot ==
    /\ \E content \in Contents : LibReloaderNew(content)
    /\ HeapUnused
    /\ FrameLoopUnused("hot_reload")
    /\ SwapchainUnused
    /\ SelectionUnused({NoDevice})

NextHot ==
    \/ ModifyLib
    \/ WatcherEvent
    \/ UpdateEnter
    \/ ReloadCopy
    \/ ReloadStoreHash
    \/ ReloadLoad
    \/ UpdateStoreChanged

\* the debouncer delivers its event and the frame loop keeps calling update
SpecHot == InitHot /\ [][NextHot]_vars /\ WF_vars(WatcherEvent) /\ WF_vars(UpdateStep)

(***************************************************************************)
(* Properties of the frame loop                                            *)
(***************************************************************************)
AfterFenceWait == pc \in {"gpu_time", "acquire", "reset_fence", "record", "submit"}

\* C1: whenever draw is past its fence wait, and so about to hand the slot's
\* image-available semaphore to acquire, reset the slot's fence or hand both to a new
\* submission, no earlier submission on that slot is still waiting to signal its fence.
C1_NoSlotReuseBeforeSignal == AfterFenceWait => ~Pending(current_frame)

\* a slot is resubmitted after its earlier submission completed, while the GPU still
\* works on another slot
C1_Witness ==
    /\ pc = "submit"
    /\ timing_query_pool[current_frame] = "written"
    /\ ~GpuIdle

\* C2: a draw call that meets ERROR_OUT_OF_DATE_KHR at acquire or at present returns
\* Ok(true) to the run loop, which sets is_swapchain_dirty; and the draw call that
\* follows recreate_swapchain clears the flag when its present returns plain success.
C2_NeedsResizeAbsorbed ==
    [][/\ (NeedsResize(frame') /\ ~NeedsResize(frame)) =>
              (frame'.result = "return_true" /\ pc' = "loop" /\ is_swapchain_dirty')
       /\ (pc = "present" /\ frame'.present = "ok") =>
              (frame'.result = "return_false" /\ pc' = "loop" /\ ~is_swapchain_dirty')]_vars

\* the draw call after a needs-resize draw ran behind recreate_swapchain and cleared the flag
C2_Witness ==
    /\ pc = "loop"
    /\ frame.after_needs_resize
    /\ frame.recreated
    /\ frame.result = "return_false"
    /\ ~is_swapchain_dirty

\* C3: once draw has set the GPU time, it is the default 0 and the query pool was not
\* read when the call started with total_frame_count < num_frames_in_flight; otherwise
\* the pool of the current slot was read and the time is not negative.
C3_GpuTimeGate ==
    pc = "acquire" =>
        IF frame.count < num_frames_in_flight
        THEN gpu_time = 0 /\ ~frame.pool_read
        ELSE frame.pool_read /\ gpu_time >= 0

\* a frame past the first N read a positive time from its slot's pool
C3_Witness ==
    /\ pc = "acquire"
    /\ frame.count >= num_frames_in_flight
    /\ frame.pool_read
    /\ timing_query_pool[current_frame] = "written"
    /\ gpu_time > 0

ImageCount == Len(swapchain.images_and_views)

InDraw == pc \in {"wait_fence", "gpu_time", "acquire", "reset_fence", "record", "submit", "present"}

HoldsImage == pc \in {"reset_fence", "record", "submit", "present"}

\* C4 as stated: with two slots and three images the k-th draw call (k from 0) uses
\* in_flight_index k mod 2, so the first uses slot 0; acquired indices lie in [0,M).
C4_SlotSequenceFromZero ==
    (num_frames_in_flight = 2 /\ ImageCount = 3 /\ InDraw) =>
        /\ frame.slot = frame.count % 2
        /\ current_frame = frame.slot
        /\ HoldsImage => frame_index \in 0..(ImageCount - 1)

\* C4 amended: the k-th draw call uses in_flight_index (k+1) mod 2, so the sequence
\* over ten draw calls is 1,0,1,0,1,0,1,0,1,0; acquired indices lie in [0,M).
C4_SlotSequenceFromOne ==
    (num_frames_in_flight = 2 /\ ImageCount = 3 /\ InDraw) =>
        /\ frame.slot = (frame.count + 1) % 2
        /\ current_frame = frame.slot
        /\ HoldsImage => frame_index \in 0..(ImageCount - 1)

\* the tenth draw call presents
C4_Witness ==
    /\ num_frames_in_flight = 2
    /\ ImageCount = 3
    /\ pc = "present"
    /\ frame.count = 9
    /\ frame.slot = 0

\* C10: the submission signals and the present waits on the same render-finished
\* semaphore, and its index is the image index acquired in this frame.
C10_RenderFinishedByImage ==
    (frame.signal # -1) =>
        /\ frame.signal = frame_index
        /\ (frame.wait # -1 => frame.wait = frame.signal)

\* C11: no two submissions still on the graphics queue use the same in-flight slot,
\* and no submission on the queue signals a render-finished semaphore that the queued
\* present of an earlier frame (another image) still waits on.
C11_NoSharedSlotWhileOutstanding ==
    /\ \A k, l \in DOMAIN gpu_queue : k # l => gpu_queue[k].slot # gpu_queue[l].slot
    /\ \A k \in DOMAIN gpu_queue : \A i \in DOMAIN image_state :
          (image_state[i] = "queued" /\ i # gpu_queue[k].image) =>
              present_wait[i] # gpu_queue[k].signal

\* C12 as stated: a fence goes from signaled to unsignaled only by the reset of the
\* current slot's fence, after the wait on it returned and before this draw call
\* acquired an image; a submission finds its fence already reset; and the fence wait
\* only returns in a draw call that has not submitted yet.
C12_ResetBeforeAcquire ==
    [][/\ \A s \in Slots : (fence[s] /\ ~fence'[s]) =>
              (s = current_frame /\ AfterFenceWait /\ frame.acquire = "none")
       /\ (pc = "submit" /\ pc' = "present") => ~fence[current_frame]
       /\ (pc = "wait_fence" /\ pc' = "gpu_time") => frame.signal = -1]_vars

\* C12 amended: the reset of the current slot's fence comes after the wait on it
\* returned and after this draw call acquired an image (a draw call that acquire ends
\* with ERROR_OUT_OF_DATE_KHR leaves every fence as it is), and before the submission;
\* the fence wait only returns in a draw call that has not submitted yet.
C12_ResetAfterAcquire ==
    [][/\ \A s \in Slots : (fence[s] /\ ~fence'[s]) =>
              (s = current_frame /\ pc = "reset_fence"
                 /\ frame.acquire \in {"ok", "suboptimal"})
       /\ (pc = "acquire" /\ pc' = "loop") => fence' = fence
       /\ (pc = "submit" /\ pc' = "present") => ~fence[current_frame]
       /\ (pc = "wait_fence" /\ pc' = "gpu_time") => frame.signal = -1]_vars

\* a slot used before was waited on, acquired for and reset, while the fence of
\* another slot stays signaled
C12_Witness ==
    /\ pc = "record"
    /\ ~fence[current_frame]
    /\ timing_query_pool[current_frame] = "written"
    /\ \E s \in Slots : s # current_frame /\ fence[s]

\* C13: a fence is unsignaled only while a submission that signals it is on the queue,
\* or while the running draw call is between its reset and its submission (or has
\* ended the program there); so on a GPU that finishes every submission a draw call
\* that waits on its slot's fence gets past the wait.
C13_FenceWaitReturns ==
    /\ [](\A s \in Slots : ~fence[s] =>
              \/ Pending(s)
              \/ s = current_frame /\ pc \in {"record", "submit", "panicked", "dropped"})
    /\ (pc = "wait_fence") ~> (pc = "gpu_time")

\* the fence wait returned on a slot that earlier draw calls used without ever
\* submitting, the draw call before this one having met ERROR_OUT_OF_DATE_KHR
C13_Witness ==
    /\ pc = "gpu_time"
    /\ frame.after_needs_resize
    /\ frame.count >= num_frames_in_flight
    /\ timing_query_pool[current_frame] = "unwritten"

\* C14: whenever draw is about to call gpu_frame_time_ms (it is past the fence wait
\* with total_frame_count >= num_frames_in_flight), a submission made earlier on the
\* current slot has finished and written the slot's timestamp pool.
C14_PoolWrittenWhenRead ==
    (pc = "gpu_time" /\ ReadsGpuTime(total_frame_count, num_frames_in_flight)) =>
        timing_query_pool[current_frame] = "written"

\* C15: the in-flight index moves exactly when a draw call is entered, from i to
\* (i + 1) mod N, before the draw call touches the slot's fence, semaphores or query
\* pool; within the draw call it stays the same; and it is always in [0, N).
C15_AdvanceOncePerDraw ==
    /\ [](current_frame \in 0..(num_frames_in_flight - 1))
    /\ [][/\ (~InDraw /\ InDraw') =>
                 /\ pc' = "wait_fence"
                 /\ current_frame' = (current_frame + 1) % num_frames_in_flight
                 /\ frame'.slot = current_frame'
          /\ ~(~InDraw /\ InDraw') => current_frame' = current_frame
          /\ InDraw => frame.slot = current_frame]_vars

\* the advance wrapped around from the last slot to slot 0
C15_Witness ==
    /\ pc = "wait_fence"
    /\ num_frames_in_flight = 2
    /\ current_frame = 0
    /\ frame.count = 1

\* C16: when draw is about to reset and record the command buffer of the image it
\* acquired, no submission of that command buffer is still on the graphics queue,
\* whichever free image the presentation engine handed out.
C16_NoRecordWhileExecuting ==
    pc = "record" => ~BufferExecuting(CommandBufferIndex(current_frame, frame_index))

\* the command buffer of an image presented before is recorded again while the GPU
\* still works on another image, with at least as many images as slots
C16_Witness ==
    /\ pc = "record"
    /\ present_wait[frame_index] # -1
    /\ ~GpuIdle
    /\ ImageCount >= num_frames_in_flight
    /\ num_frames_in_flight = 2

\* the step in which Swapchain::resize runs (it begins with destroy)
ResizeStep ==
    \/ pc = "wait_for_gpu" /\ pc' # "wait_for_gpu"
    \/ pc' # "dropped" /\ swapchain' # swapchain
    \/ pc' # "dropped" /\ live_swapchains' # live_swapchains

\* C17: resize, and with it the destruction of the old images, views and handle,
\* runs only behind the device-idle wait of recreate_swapchain, with no submission on
\* the graphics queue, and nothing is submitted between the start of that wait and
\* the destruction.
C17_IdleBeforeDestroy ==
    [][/\ ResizeStep => (pc = "wait_for_gpu" /\ GpuIdle /\ gpu_queue' = <<>>)
       /\ pc = "wait_for_gpu" => Len(gpu_queue') <= Len(gpu_queue)]_vars

\* the swapchain was resized after frames had been rendered and presented on it
C17_Witness ==
    /\ pc = "wait_fence"
    /\ frame.recreated
    /\ frame.after_needs_resize
    /\ \E s \in Slots : timing_query_pool[s] = "written"
    /\ present_queue = <<>>

\* C18: the step in which acquire_next_image reports ERROR_OUT_OF_DATE_KHR ends the
\* draw call with Ok(true), so the run loop sets is_swapchain_dirty, and touches no
\* queue, image, semaphore or fence; that draw call never reaches the fence reset,
\* recording, submission or present; and the flag is still set when the loop runs next.
C18_NeedsResizeSkipsFrame ==
    /\ [][(pc = "acquire" /\ frame'.acquire = "out_of_date") =>
              /\ pc' = "loop" /\ is_swapchain_dirty'
              /\ frame'.result = "return_true"
              /\ UNCHANGED <<gpu_queue, present_queue, image_state, fence,
                             image_available_semaphore, render_finished_semaphore>>]_vars
    /\ [](frame.acquire = "out_of_date" =>
              /\ pc \notin {"reset_fence", "record", "submit", "present"}
              /\ frame.signal = -1 /\ frame.wait = -1 /\ frame.present = "none"
              /\ pc = "loop" => is_swapchain_dirty)

\* a draw call was cut short at acquire while an earlier frame was still on the GPU
C18_Witness ==
    /\ pc = "loop"
    /\ frame.acquire = "out_of_date"
    /\ frame.result = "return_true"
    /\ is_swapchain_dirty
    /\ ~GpuIdle

\* C19: with is_swapchain_dirty set, the loop leaves its idle position only with a
\* non-zero window and only into the device-idle wait; resize runs when that wait has
\* returned; on_recreate_swapchain runs after a resize that succeeded; and a draw call
\* is entered from the callback when the flag is set, from the loop only when it is not.
C19_RecreateBeforeDraw ==
    [][/\ (pc = "loop" /\ is_swapchain_dirty /\ pc' \notin {"loop", "exiting"}) =>
              (~window_zero /\ pc' = "wait_for_gpu")
       /\ (pc = "wait_for_gpu" /\ pc' # pc) =>
              (GpuIdle /\ pc' \in {"on_recreate_swapchain", "panicked"})
       /\ (pc' = "on_recreate_swapchain" /\ pc # pc') =>
              (pc = "wait_for_gpu" /\ ImageCount' > 0)
       /\ (pc = "on_recreate_swapchain" /\ pc' # pc) => pc' \in {"wait_fence", "panicked"}
       /\ (~InDraw /\ InDraw') =>
              IF is_swapchain_dirty
              THEN pc = "on_recreate_swapchain" /\ frame'.recreated
              ELSE pc = "loop" /\ ~frame'.recreated]_vars

\* a draw call entered behind resize and callback, the flag having been set by a
\* Resized event or a suboptimal present
C19_Witness ==
    /\ pc = "wait_fence"
    /\ frame.recreated
    /\ ~frame.after_needs_resize
    /\ is_swapchain_dirty
    /\ frame.count >= 1

\* C20: the semaphore draw hands to acquire_next_image has no signal pending; while
\* a draw call holds an acquired image and has not submitted, that semaphore is
\* signaled, and the call goes on step by step to the submission or ends the program;
\* the submission waits on the semaphore handed to acquire; and a draw call that
\* acquired an image, suboptimal or not, returns to the loop only after it submitted.
C20_AcquireThenSubmit ==
    /\ [][/\ (pc = "acquire" /\ pc' # pc) =>
                 ~image_available_semaphore[frame'.semaphore]
          /\ (pc = "reset_fence" /\ pc' # pc) => pc' \in {"record", "panicked"}
          /\ (pc = "record" /\ pc' # pc) => pc' \in {"submit", "panicked"}
          /\ (pc = "submit" /\ pc' # pc) => pc' \in {"present", "panicked"}
          /\ (pc = "submit" /\ pc' = "present") =>
                 /\ Len(gpu_queue') = Len(gpu_queue) + 1
                 /\ gpu_queue'[Len(gpu_queue')].wait = frame.semaphore]_vars
    /\ [](pc \in {"reset_fence", "record", "submit"} =>
              /\ frame.acquire \in {"ok", "suboptimal"}
              /\ image_available_semaphore[frame.semaphore])
    /\ []((pc = "loop" /\ frame.acquire \in {"ok", "suboptimal"}) => frame.signal # -1)

\* a suboptimal acquire on a slot used before was followed by the submission
C20_Witness ==
    /\ pc = "present"
    /\ frame.acquire = "suboptimal"
    /\ timing_query_pool[current_frame] = "written"
    /\ gpu_queue # <<>>
    /\ gpu_queue[Len(gpu_queue)].wait = frame.semaphore

\* C21: the step in which recreate_swapchain rebuilds the swapchain leaves both
\* rings as InFlightFrames::new builds them (fences signaled, no semaphore signal
\* pending, query pools without results), and in the draw call that follows the ring
\* the render-finished semaphore is taken from has one entry per swapchain image.
C21_RingsRebuiltWithSwapchain ==
    /\ [][(pc = "wait_for_gpu" /\ pc' = "on_recreate_swapchain") =>
              \A s \in Slots :
                  /\ fence'[s]
                  /\ ~image_available_semaphore'[s]
                  /\ ~render_finished_semaphore'[s]
                  /\ timing_query_pool'[s] = "unwritten"]_vars
    /\ []((InDraw /\ frame.recreated) =>
              Cardinality(DOMAIN render_finished_semaphore) = ImageCount)

\* C22: the step in which acquire_next_image or queue_present fails with an error
\* other than ERROR_OUT_OF_DATE_KHR panics: the loop is left for good, the dirty flag
\* keeps its value, and once panicked no draw call is entered or counted.
C22_OtherFailureFatal ==
    [][/\ (\/ pc = "acquire" /\ frame'.acquire = "error"
           \/ pc = "present" /\ frame'.present = "error") =>
              /\ pc' = "panicked"
              /\ frame'.result = "panic"
              /\ is_swapchain_dirty' = is_swapchain_dirty
       /\ pc \in {"panicked", "dropped"} =>
              /\ pc' \in {"panicked", "dropped"}
              /\ frame' = frame
              /\ current_frame' = current_frame
              /\ total_frame_count' = total_frame_count]_vars

\* a present failed after earlier frames had been drawn, the flag being clear
C22_Witness ==
    /\ pc = "panicked"
    /\ frame.present = "error"
    /\ frame.count >= 1
    /\ ~is_swapchain_dirty

\* C23: the submissions made whose fence has not been signaled yet are never more
\* than num_frames_in_flight.
C23_AtMostNInFlight == Len(gpu_queue) <= num_frames_in_flight

\* both slots of a ring of two have a submission on the GPU
C23_Witness ==
    /\ num_frames_in_flight = 2
    /\ Len(gpu_queue) = 2
    /\ ~fence[0] /\ ~fence[1]
    /\ pc = "loop"
    /\ total_frame_count < frame_limit

\* C24: however the loop ended, a device-idle wait has completed before the Engine
\* is torn down, nothing having been submitted since; so at the step that drops the
\* Engine and destroys its resources no submission is left on the graphics queue.
C24_IdleBeforeTeardown ==
    [][(pc' = "dropped" /\ pc # "dropped") => GpuIdle]_vars

\* C35: while the swapchain is dirty and the window has a zero width or height, an
\* iteration of the loop neither recreates the swapchain nor draws and leaves the
\* flag set; the flag is cleared only by the draw call of an iteration that found a
\* non-zero size and recreated the swapchain
C35_ZeroSizeKeepsDirty ==
    [][/\ (pc = "loop" /\ is_swapchain_dirty /\ window_zero /\ pc' # "exiting") =>
              /\ pc' = "loop"
              /\ is_swapchain_dirty'
              /\ swapchain' = swapchain
              /\ current_frame' = current_frame
              /\ total_frame_count' = total_frame_count
       /\ (is_swapchain_dirty /\ ~is_swapchain_dirty') =>
              /\ frame.recreated
              /\ ~window_zero
              /\ frame'.result = "return_false"]_vars

\* frames have been drawn, the window is minimised and the swapchain is dirty, with
\* draw calls still to come
C35_Witness ==
    /\ pc = "loop"
    /\ is_swapchain_dirty
    /\ window_zero
    /\ total_frame_count >= 1
    /\ total_frame_count < frame_limit

(***************************************************************************)
(* Properties of the swapchain                                             *)
(***************************************************************************)
Created == swap_call.op \in {"new", "resize"} /\ swap_call.outcome = "ok"

FixedExtent(capabilities) == capabilities.current_extent[1] # U32Max

\* v brought into lo..hi is v itself inside the interval and the nearer end outside
ClampedInto(size, v, lo, hi) ==
    /\ size \in lo..hi
    /\ (v \in lo..hi => size = v)
    /\ (v < lo => size = lo)
    /\ (v > hi => size = hi)

\* C7: after Swapchain::new(w, h) or a successful resize(w, h) the size is the
\* surface's current extent when the surface reports one (width # u32::MAX), and
\* otherwise the request clamped component-wise into [min_image_extent, max_image_extent]
C7_SizeIsSurfaceOrClampedRequest ==
    Created =>
        LET capabilities == swap_call.capabilities
            request == <<swap_call.width, swap_call.height>>
        IN  IF FixedExtent(capabilities)
            THEN swapchain.size = capabilities.current_extent
            ELSE \A k \in 1..2 :
                    ClampedInto(swapchain.size[k], request[k],
                                capabilities.min_image_extent[k],
                                capabilities.max_image_extent[k])

\* a resize whose width is above the maximum and whose height is below the minimum
C7_Witness ==
    /\ swap_call.op = "resize"
    /\ swap_call.outcome = "ok"
    /\ ~FixedExtent(swap_call.capabilities)
    /\ swap_call.width > swap_call.capabilities.max_image_extent[1]
    /\ swap_call.height < swap_call.capabilities.min_image_extent[2]
    /\ swapchain.size = <<MaxExtent, 2>>

\* C8: in every state between Swapchain operations (after new, after a successful
\* resize, after a resize that returned an error part-way, after drop) the color list
\* and the depth list have the same length
C8_ColorAndDepthSameLength ==
    Len(swapchain.images_and_views) = Len(swapchain.depht_images_and_views)

\* a resize that failed in create_swapchain, on a swapchain that had images before
C8_Witness ==
    /\ swap_call.op = "resize"
    /\ swap_call.outcome = "create"
    /\ swapchain.images_and_views = <<>>
    /\ swapchain.depht_images_and_views = <<>>
    /\ swapchain.swapchain_khr \notin live_swapchains

\* C33: for the same surface capabilities and the same requested extent, resize
\* hands create_swapchain what Swapchain::new would: the same extent, the same
\* minimum image count, the same usage flags and the same sharing mode
C33_ResizeBuildsAsNew ==
    (swap_call.op = "resize" /\ swap_call.outcome # "caps") =>
        swap_call.create_info =
            NewCreateInfo(swap_call.capabilities, swap_call.width, swap_call.height,
                          physical_device)

\* C34: no swapchain handle is handed to destroy_swapchain a second time, neither
\* by a resize nor by the drop that follows a resize which returned an error after
\* it had destroyed the old chain
C34_HandleDestroyedOnce ==
    ~double_destroy

(***************************************************************************)
(* Properties of device selection                                          *)
(***************************************************************************)
Selected == physical_devices[physical_device.inner]

\* C5: a device returned by select_suitable_physical_device supports every required
\* extension and every required feature
C5_SelectedSupportsRequired ==
    physical_device.status = "ok" =>
        /\ config.required_extensions \subseteq Selected.extension_properties
        /\ config.required_device_features \subseteq Selected.features

\* C6: two runs of select_suitable_physical_device on the same capabilities and the
\* same two flags return the same outcome: the same device with the same queue
\* families, surface format, depth format and present mode, whatever order the maps
\* are iterated in
C6_SelectionDeterministic ==
    [][(select_runs >= 1 /\ select_runs' = select_runs + 1)
           => physical_device' = physical_device]_vars

\* a second run over two devices, one of which is charged for a missing extension
C6_Witness ==
    /\ select_runs = 2
    /\ physical_device.status = "ok"
    /\ Len(physical_devices_capabilities) = 2
    /\ \E i \in 1..2 :
          /\ ~physical_devices_capabilities[i].wanted_device_features_ok
          /\ ~physical_devices_capabilities[i].wanted_extensions_ok

\* the hard requirements on a device
MeetsHardRequirements(device) ==
    /\ \E i \in DOMAIN device.queue_family_properties :
          LET p == device.queue_family_properties[i]
          IN  p.queue_count > 0 /\ p.graphics /\ p.compute /\ p.timestamp_valid_bits > 0
    /\ \E i \in DOMAIN device.queue_family_properties :
          device.queue_family_properties[i].queue_count > 0 /\ device.surface_support[i]
    /\ device.surface_formats # <<>>
    /\ Keep(PresentModePrio, Range(device.present_modes)) # <<>>
    /\ device.depth_stencil_formats # {}
    /\ config.required_extensions \subseteq device.extension_properties
    /\ config.required_device_features \subseteq device.features

\* the candidates are an integrated GPU at position i that supports everything
\* wanted and a discrete GPU at position j that misses exactly one wanted extension
IntegratedAndDiscrete(i, j) ==
    /\ DOMAIN physical_devices = {i, j}
    /\ i # j
    /\ MeetsHardRequirements(physical_devices[i])
    /\ MeetsHardRequirements(physical_devices[j])
    /\ physical_devices[i].device_type = "INTEGRATED_GPU"
    /\ config.wanted_extensions \subseteq physical_devices[i].extension_properties
    /\ config.wanted_device_features \subseteq physical_devices[i].features
    /\ physical_devices[j].device_type = "DISCRETE_GPU"
    /\ Cardinality(config.wanted_extensions \ physical_devices[j].extension_properties) = 1
    /\ config.wanted_device_features \subseteq physical_devices[j].features

\* C9 as stated: with an integrated GPU that supports everything wanted and a
\* discrete GPU that misses exactly one wanted extension, select returns the
\* discrete GPU in either order
C9_DiscretePreferred ==
    \A i, j \in 1..2 :
        (physical_device.status # "none" /\ IntegratedAndDiscrete(i, j))
            => (physical_device.status = "ok" /\ physical_device.inner = j)

\* C9 for two devices that report different names: the discrete GPU is returned in
\* either order
C9_DiscretePreferredDistinctNames ==
    \A i, j \in 1..2 :
        (/\ physical_device.status # "none"
         /\ IntegratedAndDiscrete(i, j)
         /\ physical_devices[i].device_name # physical_devices[j].device_name)
            => (physical_device.status = "ok" /\ physical_device.inner = j)

\* the integrated GPU is listed first, the discrete GPU is charged for its missing
\* extension and is returned
C9_Witness ==
    /\ physical_device.status = "ok"
    /\ IntegratedAndDiscrete(1, 2)
    /\ physical_devices[1].device_name # physical_devices[2].device_name
    /\ ~physical_devices_capabilities[2].wanted_device_features_ok
    /\ physical_device.inner = 2
    /\ physical_device.device_type = "DISCRETE_GPU"

\* C25: a device that lacks a graphics+compute+timestamp queue family, a present
\* queue family, a surface format, a present mode, a depth format, or a required
\* extension or feature is dropped by the filter: it is not among the suitable
\* devices that select sorts, and it is not the device select returns
C25_LackingDeviceDropped ==
    /\ \A k \in DOMAIN devices_capabilities :
          MeetsHardRequirements(physical_devices[devices_capabilities[k].inner])
    /\ physical_device.status = "ok" => MeetsHardRequirements(Selected)

\* C26: select_suitable_physical_device ends with Ok or Err and never with an
\* index-out-of-bounds panic: every list it indexes at [0] for the chosen device
\* is non-empty
C26_NoIndexPanic ==
    select_runs >= 1 => physical_device.status \in {"ok", "err"}

\* the requirements the filter tells apart, by the label it logs for each
RequirementLabels ==
    {"Limits not ok", "No Graphics Queue", "No Present Queue",
     "No Supported Surface Format", "No Supported Render Storage Image Format",
     "No Present Mode", "Extensions not ok", "Device Features not ok"}

\* C27: select_suitable_physical_device returns an error exactly when no reported
\* device passes the hard requirements, and the error names the requirement that
\* no device could satisfy
C27_ErrorNamesRequirement ==
    select_runs >= 1 =>
        /\ physical_device.status = "err" <=>
              \A i \in DOMAIN physical_devices :
                  ~MeetsHardRequirements(physical_devices[i])
        /\ physical_device.status = "err" =>
              physical_device.message \in RequirementLabels

\* survivor a is preferred to survivor b: fewer points taken off, then the smaller
\* max_memory_allocation_count, then the earlier place in the reported list
Preferred(a, b) ==
    LET count(x) == physical_devices[x.inner].max_memory_allocation_count
    IN  \/ a.minus_points > b.minus_points
        \/ /\ a.minus_points = b.minus_points
           /\ count(a) < count(b)
        \/ /\ a.minus_points = b.minus_points
           /\ count(a) = count(b)
           /\ a.inner < b.inner

\* C28: the selected device is the surviving candidate with the least total penalty;
\* survivors with equal penalty are told apart by max_memory_allocation_count (the
\* smaller count wins), and those still tied by their position in the list
C28_LeastPenaltySelected ==
    physical_device.status = "ok" =>
        \E s \in Range(devices_capabilities) :
            /\ s.inner = physical_device.inner
            /\ \A t \in Range(devices_capabilities) \ {s} : Preferred(s, t)

\* two survivors of equal penalty, and the later one is selected for its smaller
\* max_memory_allocation_count
C28_Witness ==
    /\ physical_device.status = "ok"
    /\ Len(devices_capabilities) = 2
    /\ devices_capabilities[1].minus_points = devices_capabilities[2].minus_points
    /\ physical_device.inner = 2
    /\ physical_devices[2].max_memory_allocation_count
          < physical_devices[1].max_memory_allocation_count

\* the wanted extensions and the wanted features a device does not support
MissingWanted(device) ==
    [extensions |-> config.wanted_extensions \ device.extension_properties,
     features |-> config.wanted_device_features \ device.features]

\* C29: a surviving device that misses k wanted extensions and m wanted features
\* loses 5 * (k + m) points on top of the points of its class, also when k > 0
\* and m = 0 (no storage-bit surface format is wanted here)
C29_FivePointsPerMissing ==
    \A k \in DOMAIN devices_capabilities :
        LET device == physical_devices[devices_capabilities[k].inner]
            missing == MissingWanted(device)
        IN  devices_capabilities[k].minus_points =
                TypePenalty(device.device_type)
                    - 5 * (Cardinality(missing.extensions) + Cardinality(missing.features))

\* the place of a mode in the fixed order
PrioRank(mode) == CHOOSE i \in DOMAIN PresentModePrio : PresentModePrio[i] = mode

\* C30: the present mode of the selected device is the mode it supports that comes
\* first in the order FIFO_RELAXED, FIFO, MAILBOX, SHARED_CONTINUOUS_REFRESH,
\* SHARED_DEMAND_REFRESH, IMMEDIATE, whatever the order in which the device reports
\* its modes
C30_PresentModeByPriority ==
    physical_device.status = "ok" =>
        /\ physical_device.present_mode \in Range(Selected.present_modes)
        /\ \A mode \in Range(Selected.present_modes) :
              PrioRank(physical_device.present_mode) <= PrioRank(mode)

\* the selected device reports a mode of lower priority before the one select takes
C30_Witness ==
    /\ physical_device.status = "ok"
    /\ Len(Selected.present_modes) >= 2
    /\ Selected.present_modes[1] # physical_device.present_mode

\* C31: once Context::new has built its lists, the extensions and features of an
\* optional capability are in the required lists when its level is Needed, in the
\* wanted lists and not in the required ones when it is Wanted, and in neither
\* when it is NotUsed
C31_LevelsMapToLists ==
    pc = "startup" =>
        \A cap \in DOMAIN CapabilityNames :
            LET names == CapabilityNames[cap]
                level == engine_config[cap]
            IN  /\ level = "Needed" =>
                      /\ names.extensions \subseteq config.required_extensions
                      /\ names.features \subseteq config.required_device_features
                /\ level = "Wanted" =>
                      /\ names.extensions \subseteq config.wanted_extensions
                      /\ names.features \subseteq config.wanted_device_features
                      /\ names.extensions \cap config.required_extensions = {}
                      /\ names.features \cap config.required_device_features = {}
                /\ level = "NotUsed" =>
                      /\ names.extensions \cap (config.required_extensions
                                                    \cup config.wanted_extensions) = {}
                      /\ names.features \cap (config.required_device_features
                                                  \cup config.wanted_device_features) = {}

\* C32: for every wanted feature name the flag recorded in wanted_device_features of
\* a loaded device says whether the device supports the feature, whatever the
\* required list holds
C32_WantedFlagIsSupport ==
    \A i \in DOMAIN physical_devices_capabilities :
        \A name \in config.wanted_device_features :
            physical_devices_capabilities[i].wanted_device_features[name]
                = (name \in physical_devices[i].features)

\* C36: once a non-empty capability list has been loaded, a later call of
\* load_possible_physical_devices_capabilities leaves it as it is, also when the
\* call passes other required / wanted lists: the devices are not probed again
C36_CapabilitiesCached ==
    [][physical_devices_capabilities # <<>> =>
          physical_devices_capabilities' = physical_devices_capabilities]_vars

\* the cache holds the answers to the lists of the first call, and load has since
\* been called with other lists
C36_Witness ==
    /\ physical_devices_capabilities # <<>>
    /\ DOMAIN physical_devices_capabilities[1].required_extensions
          # config.required_extensions
    /\ DOMAIN physical_devices_capabilities[1].required_device_features
          # config.required_device_features

(***************************************************************************)
(* Properties of the descriptor heap                                       *)
(***************************************************************************)
\* C37: alloc never returns a value that a live DescriptorHandle holds: after any
\* sequence of create_image_handle calls and handle drops, the values of the live
\* handles are pairwise distinct
C37_LiveHandlesDistinct ==
    \A v \in HandleValues : live_handles[v] <= 1

(***************************************************************************)
(* Properties of the library reloader                                      *)
(***************************************************************************)
\* C38: whenever the watched file has a content whose hash differs from the hash of
\* the loaded library, can_update() comes to report it and an update() comes to load
\* it: a library with the hash of the file is loaded in the end, also when the file
\* was written while update() was reloading
C38_ModificationEventuallyLoaded ==
    (HashFile(watched_lib) # HashFile(loaded_lib))
        ~> (HashFile(watched_lib) = HashFile(loaded_lib))

====================================================================================
